---- MODULE Spec2Model ----
(***************************************************************************)
(* Model of solveOptimalWithFixed (src/unnamed/part_000): the fixed/free   *)
(* partition, quantization, the greedy (LPT) baseline, the branch-and-     *)
(* bound depth-first search with its explicit call stack, and the final    *)
(* assembly of the teams; of parseTimeToMinutes (src/js/time.js); and of  *)
(* solve() with its deferred callback and the checkpoint it saves          *)
(* (src/unnamed/part_001).                                                 *)
(*                                                                         *)
(* Arrays are 1-based here (team t of the model is index t-1 of the code). *)
(* In direct calls of the core a job's name is its position in the input   *)
(* list, so that a job can be followed from the input to the output.       *)
(***************************************************************************)
EXTENDS Integers, Sequences, FiniteSets, TLC

\* ---------------------------------------------------------------- bounds
MaxJobs == 4
MaxTeams == 2
MaxPinned == 1

\* the durations (minutes) and the quanta the inputs are drawn from
Durations == {1, 2, 3}
Quanta == {1, 2}

VARIABLES
  jobsMinutes,   \* argument: sequence of [name, minutes, fixedTeam]
  teamCount,     \* argument
  quant,         \* argument
  pc,            \* position inside solveOptimalWithFixed
  run,           \* number of the current invocation on this input
  firstTeams,    \* teams returned by the first invocation
  fixedLoads, fixedAssign, free,
  baseW, freeItems,
  loads0, assign0,
  bestMakespanW, bestAssign,
  avgLB, baseMax,
  loads, assign, seen,
  stack,         \* call stack of dfs, innermost call last
  teams,         \* the returned value
  \* the page script (src/unnamed/part_001)
  jobs,                 \* rows of the job table: [name, durRaw, fixedTeam]
  elK, elQuant,         \* text of the team-count and rounding inputs
  elStatus,             \* status line: [text, tone]
  elErr,                \* error box: [shown, text]
  elOut,                \* plan output: the rendered snapshot, or NoPlan
  latestPlanSnapshot,
  solveHistory,         \* checkpoints, newest first
  editingCheckpointId,
  idSeq,                \* number of ids makeId has handed out
  now,                  \* Date.now()
  timers,               \* pending setTimeout callbacks of solve(), oldest first
  uiPc,                 \* position of the page's event loop
  confirm,              \* the confirm dialog: [open, kind, id]
  \* the sheets cache (src/js/sheetsDb.js)
  spreadsheetUrl, ttlMs,   \* options of createSheetsDb
  state,                   \* the state object of the cache
  refreshPromise,          \* TRUE while refreshPromise holds a promise
  refreshTimer,            \* handle kept in refreshTimer, 0 for null
  sheetTimers,             \* the cache's pending setTimeout callbacks: [id, left]
  storage,                 \* localStorage entry of the cache, or NoCache
  fetch,                   \* progress of fetchSheetRows
  destroyed,               \* destroy() has been called
  calls,                   \* calls of init() and refreshNow() made so far
  lastEvent                \* the last start or completion of a refresh

vars == <<jobsMinutes, teamCount, quant, pc, run, firstTeams,
          fixedLoads, fixedAssign, free, baseW, freeItems,
          loads0, assign0, bestMakespanW, bestAssign, avgLB, baseMax,
          loads, assign, seen, stack, teams,
          jobs, elK, elQuant, elStatus, elErr, elOut, latestPlanSnapshot,
          solveHistory, editingCheckpointId, idSeq, now, timers, uiPc, confirm,
          spreadsheetUrl, ttlMs, state, refreshPromise, refreshTimer, sheetTimers,
          storage, fetch, destroyed, calls, lastEvent>>

inputVars == <<jobsMinutes, teamCount, quant>>

pageVars == <<jobs, elK, elQuant, elStatus, elErr, elOut, latestPlanSnapshot,
              solveHistory, editingCheckpointId, idSeq, now, timers, uiPc, confirm>>

sheetVars == <<spreadsheetUrl, ttlMs, state, refreshPromise, refreshTimer,
               sheetTimers, storage, fetch, destroyed, calls, lastEvent>>

\* null where a plan snapshot or a rendered plan is expected
NoPlan == [plan |-> FALSE]

\* null where a checkpoint id (a non-empty text) is expected
NoId == <<>>

\* the confirm dialog is closed
NoConfirm == [open |-> FALSE, kind |-> "none", id |-> NoId]

\* the page as it is before any of its handlers has run
PageUnused ==
  /\ jobs = <<>>
  /\ elK = <<>> /\ elQuant = <<>>
  /\ elStatus = [text |-> [pre |-> "", arg |-> <<>>, post |-> ""], tone |-> "neutral"]
  /\ elErr = [shown |-> FALSE, text |-> [pre |-> "", arg |-> <<>>, post |-> ""]]
  /\ elOut = NoPlan
  /\ latestPlanSnapshot = NoPlan
  /\ solveHistory = <<>>
  /\ editingCheckpointId = NoId
  /\ idSeq = 0
  /\ now = 0
  /\ timers = <<>>
  /\ uiPc = "idle"
  /\ confirm = NoConfirm

\* no cache has been created
SheetsUnused ==
  /\ spreadsheetUrl = "" /\ ttlMs = 0
  /\ state = [records |-> <<>>]
  /\ refreshPromise = FALSE
  /\ refreshTimer = 0
  /\ sheetTimers = {}
  /\ storage = [cached |-> FALSE]
  /\ fetch = <<>>
  /\ destroyed = FALSE
  /\ calls = 0
  /\ lastEvent = "none"

\* ------------------------------------------------------- pure helpers
Teams == 1..teamCount

RECURSIVE SumSeq(_)
SumSeq(s) == IF s = <<>> THEN 0 ELSE s[1] + SumSeq(Tail(s))

RECURSIVE MaxSeq(_)
\* Math.max(...arr) of a non-empty array
MaxSeq(s) == IF Len(s) = 1 THEN s[1]
             ELSE LET m == MaxSeq(Tail(s)) IN IF s[1] >= m THEN s[1] ELSE m

\* Math.round(minutes / q) for minutes >= 0, q >= 1: halves round up
MathRound(minutes, qq) == (2 * minutes + qq) \div (2 * qq)

\* Math.ceil(a / b) for a >= 0, b >= 1
MathCeil(a, b) == (a + b - 1) \div b

\* const q = Math.max(1, quant | 0)
q == IF quant >= 1 THEN quant ELSE 1

\* variant: the weight is the rounded quotient, also when that is 0
ItemWeight_Unclamped(minutes) == MathRound(minutes, q)

\* variant: a team's weight is the rounded quotient, also when that is 0
BaseWeight_Unforced(minutes) == MathRound(minutes, q)

\* Array.prototype.sort is stable.  SortRank(keys, i) is the place of
\* position i after a stable ascending sort: behind every position with a
\* smaller key and every earlier position with an equal key.
SortRank(keys, i) ==
  1 + Cardinality({j \in 1..Len(keys) :
                     keys[j] < keys[i] \/ (keys[j] = keys[i] /\ j < i)})

\* variant: an unstable sort that puts a position before the equal keys
SortPerm_Unstable(keys) ==
  [r \in 1..Len(keys) |->
     CHOOSE i \in 1..Len(keys) :
       r = 1 + Cardinality({j \in 1..Len(keys) :
                              keys[j] < keys[i] \/ (keys[j] = keys[i] /\ j > i)})]

\* the order in which a stable ascending sort visits the positions of keys
SortPerm(keys) ==
  CHOOSE p \in {[r \in 1..Len(keys) |-> CHOOSE i \in 1..Len(keys) : rank[i] = r] :
                 rank \in {[i \in 1..Len(keys) |-> SortRank(keys, i)]}} : TRUE

Permute(s, p) == [i \in 1..Len(s) |-> s[p[i]]]

\* .sort((a, b) => b.w - a.w)
SortByWeightDesc(items) == Permute(items, SortPerm([i \in 1..Len(items) |-> 0 - items[i].w]))
\* variant: comparator (a, b) => a.minutes - b.minutes
SortByMinutesDesc_Ascending(js) == Permute(js, SortPerm([i \in 1..Len(js) |-> js[i].minutes]))

\* .sort((a, b) => b.minutes - a.minutes)
SortByMinutesDesc(js) == Permute(js, SortPerm([i \in 1..Len(js) |-> 0 - js[i].minutes]))
\* .sort((a, b) => a - b)
SortAsc(ns) == Permute(ns, SortPerm(ns))

\* ------------------------------------------------ partition (lines 4-16)
\* variant: the upper end of the range is excluded
IsPinned_ExclusiveUpper(job) == job.fixedTeam # 0 /\ job.fixedTeam >= 1 /\ job.fixedTeam < teamCount

\* variant: the upper end of the range is not checked
IsPinned_NoUpperCheck(job) == job.fixedTeam # 0 /\ job.fixedTeam >= 1

\* job.fixedTeam && job.fixedTeam >= 1 && job.fixedTeam <= teamCount
IsPinned(job) == job.fixedTeam # 0 /\ job.fixedTeam >= 1 /\ job.fixedTeam <= teamCount

\* the jobs the loop pushes on fixedAssign[t], in input order
PinnedTo(t) == SelectSeq(jobsMinutes, LAMBDA job : IsPinned(job) /\ job.fixedTeam = t)

OutJob(x) == [name |-> x.name, minutes |-> x.minutes]

OutJobs(xs) == [k \in 1..Len(xs) |-> OutJob(xs[k])]
MinutesOf(xs) == [k \in 1..Len(xs) |-> xs[k].minutes]

PartFixedAssign == [t \in Teams |-> OutJobs(PinnedTo(t))]
PartFixedLoads == [t \in Teams |-> SumSeq(MinutesOf(PinnedTo(t)))]
PartFree == SelectSeq(jobsMinutes, LAMBDA job : ~IsPinned(job))

\* ---------------------------------------------- quantization (lines 18-31)
\* baseW[i] = Math.round(minutes / q), forced to 1 when minutes > 0 rounds to 0
BaseWeight(minutes) ==
  LET r == MathRound(minutes, q)
  IN  IF minutes > 0 /\ r = 0 THEN 1 ELSE r

\* w: Math.max(1, Math.round(job.minutes / q))
ItemWeight(minutes) ==
  LET r == MathRound(minutes, q)
  IN  IF r >= 1 THEN r ELSE 1

ToItem(job) == [name |-> job.name, minutes |-> job.minutes, w |-> ItemWeight(job.minutes)]

MakeFreeItems(fr) == SortByWeightDesc([k \in 1..Len(fr) |-> ToItem(fr[k])])

itemCount == Len(freeItems)

\* ------------------------------------------- greedy baseline (lines 33-45)
\* variant: a later team of equal load replaces the best (<= for <)
LeastLoaded_LastOnTies(ld) ==
  CHOOSE b \in DOMAIN ld :
    /\ \A i \in DOMAIN ld : ld[b] <= ld[i]
    /\ \A i \in DOMAIN ld : i > b => ld[i] > ld[b]

\* best = 0; for i in 1..teamCount-1: if (loads0[i] < loads0[best]) best = i
LeastLoaded(ld) ==
  CHOOSE b \in DOMAIN ld :
    /\ \A i \in DOMAIN ld : ld[b] <= ld[i]
    /\ \A i \in DOMAIN ld : i < b => ld[i] > ld[b]

\* one round of the loop (lines 36-41)
GreedyStep(g, item) ==
  LET best == LeastLoaded(g.loads)
  IN  [loads |-> [g.loads EXCEPT ![best] = @ + item.w],
       assign |-> [g.assign EXCEPT ![best] = Append(@, item)]]

\* for (const item of freeItems): each round works on the values the round
\* before it has left
RECURSIVE Greedy(_, _, _)
Greedy(items, ld, asg) ==
  IF items = <<>> THEN [loads |-> ld, assign |-> asg]
  ELSE CHOOSE r \in {Greedy(Tail(items), g.loads, g.assign) :
                       g \in {GreedyStep([loads |-> ld, assign |-> asg], Head(items))}} : TRUE

EmptyLists == [t \in Teams |-> <<>>]

\* variant: the best assignment starts from the working lists
InitialBestAssign_FromWorkingLists(a0, a) == a

\* bestAssign = assign0.map((arr) => arr.slice())
InitialBestAssign(a0, a) == a0

\* ------------------------------------------------- search setup (47-54)
WeightsOf(xs) == [k \in 1..Len(xs) |-> xs[k].w]
\* variant: the ceiling taken as floor + 1
AverageLowerBound_FloorPlusOne(sumBase, sumFree) == ((sumBase + sumFree) \div teamCount) + 1

\* Math.ceil((sumBase + sumFree) / teamCount)
AverageLowerBound(sumBase, sumFree) == MathCeil(sumBase + sumFree, teamCount)

\* variant: the visited set is shared by all invocations
NewSeen_Kept(old) == old

\* const seen = new Set()
NewSeen(old) == {}

\* variant: the key is built from the loads in team order
Key_TeamOrder(idx) == <<idx, loads>>

\* key(idx): idx + "|" + ascending loads joined by ","
Key(idx) == <<idx, SortAsc(loads)>>

\* lb = Math.max(avgLB, baseMax, currentMax)
LowerBound == MaxSeq(<<avgLB, baseMax, MaxSeq(loads)>>)

\* variant: the teams are taken in index order
Order_ByIndex == [t \in Teams |-> t]

\* order = [0..teamCount-1].sort((a, b) => loads[a] - loads[b])
Order == SortPerm(loads)

\* ------------------------------------------------------------ initial state
\* An invocation is about to start on a valid input: teamCount >= 1,
\* quant >= 1, positive integer minutes, fixedTeam in 0..teamCount, at most
\* MaxPinned pinned jobs.
Init ==
  /\ teamCount \in 1..MaxTeams
  /\ quant \in Quanta
  /\ \E n \in 0..MaxJobs :
       \E ms \in [1..n -> Durations] :
         \E fs \in [1..n -> 0..teamCount] :
           /\ Cardinality({i \in 1..n : fs[i] # 0}) <= MaxPinned
           /\ jobsMinutes = [i \in 1..n |->
                               [name |-> i, minutes |-> ms[i], fixedTeam |-> fs[i]]]
  /\ pc = "partition"
  /\ run = 1
  /\ firstTeams = <<>>
  /\ fixedLoads = <<>> /\ fixedAssign = <<>> /\ free = <<>>
  /\ baseW = <<>> /\ freeItems = <<>>
  /\ loads0 = <<>> /\ assign0 = <<>>
  /\ bestMakespanW = 0 /\ bestAssign = <<>>
  /\ avgLB = 0 /\ baseMax = 0
  /\ loads = <<>> /\ assign = <<>> /\ seen = {}
  /\ stack = <<>>
  /\ teams = <<>>
  /\ PageUnused
  /\ SheetsUnused

\* ------------------------------------------------------------- the steps
\* lines 4-16
Partition ==
  /\ pc = "partition"
  /\ fixedLoads' = PartFixedLoads
  /\ fixedAssign' = PartFixedAssign
  /\ free' = PartFree
  /\ pc' = "quantize"
  /\ UNCHANGED <<inputVars, pageVars, sheetVars, run, firstTeams, baseW, freeItems, loads0, assign0,
                 bestMakespanW, bestAssign, avgLB, baseMax, loads, assign, seen,
                 stack, teams>>

\* lines 18-31
Quantize ==
  /\ pc = "quantize"
  /\ baseW' = [t \in Teams |-> BaseWeight(fixedLoads[t])]
  /\ freeItems' = MakeFreeItems(free)
  /\ pc' = "greedy"
  /\ UNCHANGED <<inputVars, pageVars, sheetVars, run, firstTeams, fixedLoads, fixedAssign, free,
                 loads0, assign0, bestMakespanW, bestAssign, avgLB, baseMax,
                 loads, assign, seen, stack, teams>>

\* lines 33-45
GreedyBaseline ==
  /\ pc = "greedy"
  /\ LET g == Greedy(freeItems, baseW, EmptyLists)
     IN  /\ loads0' = g.loads
         /\ assign0' = g.assign
         /\ bestMakespanW' = MaxSeq(g.loads)
         /\ bestAssign' = InitialBestAssign(g.assign, EmptyLists)
  /\ pc' = "setup"
  /\ UNCHANGED <<inputVars, pageVars, sheetVars, run, firstTeams, fixedLoads, fixedAssign, free,
                 baseW, freeItems, avgLB, baseMax, loads, assign, seen, stack,
                 teams>>

CallFrame(idx) ==
  [idx |-> idx, at |-> "call", order |-> <<>>, pos |-> 0, triedLoads |-> {},
   i |-> 0, previousLoad |-> 0]

\* lines 47-54 and the call dfs(0) of line 99
SearchSetup ==
  /\ pc = "setup"
  /\ avgLB' = AverageLowerBound(SumSeq(baseW), SumSeq(WeightsOf(freeItems)))
  /\ baseMax' = MaxSeq(baseW)
  /\ loads' = baseW
  /\ assign' = EmptyLists
  /\ seen' = NewSeen(seen)
  /\ stack' = <<CallFrame(0)>>
  /\ pc' = "search"
  /\ UNCHANGED <<inputVars, pageVars, sheetVars, run, firstTeams, fixedLoads, fixedAssign, free,
                 baseW, freeItems, loads0, assign0, bestMakespanW, bestAssign,
                 teams>>

\* -------------------------------------------------------- dfs (lines 61-97)
Top == stack[Len(stack)]
Pop == SubSeq(stack, 1, Len(stack) - 1)
SetTop(f) == [stack EXCEPT ![Len(stack)] = f]

AtCall == pc = "search" /\ stack # <<>> /\ Top.at = "call"
AtLoop == pc = "search" /\ stack # <<>> /\ Top.at = "loop"

searchFrame == <<inputVars, pageVars, sheetVars, run, firstTeams, fixedLoads, fixedAssign, free,
                 baseW, freeItems, loads0, assign0, avgLB, baseMax, teams, pc>>

\* variant: the makespan is recorded without copying the assignment
DfsTerminal_NoCopy ==
  /\ AtCall
  /\ Top.idx = itemCount
  /\ LET mk == MaxSeq(loads)
     IN  IF mk < bestMakespanW
         THEN /\ bestMakespanW' = mk
              /\ UNCHANGED bestAssign
         ELSE UNCHANGED <<bestMakespanW, bestAssign>>
  /\ stack' = Pop
  /\ UNCHANGED <<searchFrame, loads, assign, seen>>

\* lines 62-69: terminal node
DfsTerminal ==
  /\ AtCall
  /\ Top.idx = itemCount
  /\ LET mk == MaxSeq(loads)
     IN  IF mk < bestMakespanW
         THEN /\ bestMakespanW' = mk
              /\ bestAssign' = assign
         ELSE UNCHANGED <<bestMakespanW, bestAssign>>
  /\ stack' = Pop
  /\ UNCHANGED <<searchFrame, loads, assign, seen>>

\* lines 71-73: lower-bound prune
DfsPrune ==
  /\ AtCall
  /\ Top.idx # itemCount
  /\ LowerBound >= bestMakespanW
  /\ stack' = Pop
  /\ UNCHANGED <<searchFrame, loads, assign, seen, bestMakespanW, bestAssign>>

\* lines 75-76: state already visited
DfsSeen ==
  /\ AtCall
  /\ Top.idx # itemCount
  /\ ~(LowerBound >= bestMakespanW)
  /\ Key(Top.idx) \in seen
  /\ stack' = Pop
  /\ UNCHANGED <<searchFrame, loads, assign, seen, bestMakespanW, bestAssign>>

\* lines 77-81: record the key and set up the branch loop
DfsExpand ==
  /\ AtCall
  /\ Top.idx # itemCount
  /\ ~(LowerBound >= bestMakespanW)
  /\ Key(Top.idx) \notin seen
  /\ seen' = seen \cup {Key(Top.idx)}
  /\ stack' = SetTop([Top EXCEPT !.at = "loop", !.order = Order, !.pos = 1,
                                 !.triedLoads = {}])
  /\ UNCHANGED <<searchFrame, loads, assign, bestMakespanW, bestAssign>>

\* line 85: a team with this load was already tried at this node
DfsSkipTried ==
  /\ AtLoop
  /\ Top.pos <= teamCount
  /\ loads[Top.order[Top.pos]] \in Top.triedLoads
  /\ stack' = SetTop([Top EXCEPT !.pos = @ + 1])
  /\ UNCHANGED <<searchFrame, loads, assign, seen, bestMakespanW, bestAssign>>

\* lines 86-89: the branch cannot beat the best
DfsSkipLoad ==
  /\ AtLoop
  /\ Top.pos <= teamCount
  /\ LET i == Top.order[Top.pos]
         previousLoad == loads[i]
         newLoad == previousLoad + freeItems[Top.idx + 1].w
     IN  /\ previousLoad \notin Top.triedLoads
         /\ newLoad >= bestMakespanW
         /\ stack' = SetTop([Top EXCEPT !.pos = @ + 1,
                                        !.triedLoads = @ \cup {previousLoad}])
  /\ UNCHANGED <<searchFrame, loads, assign, seen, bestMakespanW, bestAssign>>

\* variant: the branch is taken whatever the new load
DfsDescend_NoFeasibilityCheck ==
  /\ AtLoop
  /\ Top.pos <= teamCount
  /\ LET i == Top.order[Top.pos]
         item == freeItems[Top.idx + 1]
         previousLoad == loads[i]
         newLoad == previousLoad + item.w
     IN  /\ previousLoad \notin Top.triedLoads
         /\ loads' = [loads EXCEPT ![i] = newLoad]
         /\ assign' = [assign EXCEPT ![i] = Append(@, item)]
         /\ stack' = Append(SetTop([Top EXCEPT !.at = "back", !.i = i,
                                               !.previousLoad = previousLoad,
                                               !.triedLoads = @ \cup {previousLoad}]),
                            CallFrame(Top.idx + 1))
  /\ UNCHANGED <<searchFrame, seen, bestMakespanW, bestAssign>>

\* variant: the item is not pushed on the partial list of team i
DfsDescend_NoPush ==
  /\ AtLoop
  /\ Top.pos <= teamCount
  /\ LET i == Top.order[Top.pos]
         item == freeItems[Top.idx + 1]
         previousLoad == loads[i]
         newLoad == previousLoad + item.w
     IN  /\ previousLoad \notin Top.triedLoads
         /\ ~(newLoad >= bestMakespanW)
         /\ loads' = [loads EXCEPT ![i] = newLoad]
         /\ UNCHANGED assign
         /\ stack' = Append(SetTop([Top EXCEPT !.at = "back", !.i = i,
                                               !.previousLoad = previousLoad,
                                               !.triedLoads = @ \cup {previousLoad}]),
                            CallFrame(Top.idx + 1))
  /\ UNCHANGED <<searchFrame, seen, bestMakespanW, bestAssign>>

\* variant: the recursive call is dfs(idx)
DfsDescend_SameIndex ==
  /\ AtLoop
  /\ Top.pos <= teamCount
  /\ LET i == Top.order[Top.pos]
         item == freeItems[Top.idx + 1]
         previousLoad == loads[i]
         newLoad == previousLoad + item.w
     IN  /\ previousLoad \notin Top.triedLoads
         /\ ~(newLoad >= bestMakespanW)
         /\ loads' = [loads EXCEPT ![i] = newLoad]
         /\ assign' = [assign EXCEPT ![i] = Append(@, item)]
         /\ stack' = Append(SetTop([Top EXCEPT !.at = "back", !.i = i,
                                               !.previousLoad = previousLoad,
                                               !.triedLoads = @ \cup {previousLoad}]),
                            CallFrame(Top.idx))
  /\ UNCHANGED <<searchFrame, seen, bestMakespanW, bestAssign>>

\* lines 86-93: place the item on team i and call dfs(idx + 1)
DfsDescend ==
  /\ AtLoop
  /\ Top.pos <= teamCount
  /\ LET i == Top.order[Top.pos]
         item == freeItems[Top.idx + 1]
         previousLoad == loads[i]
         newLoad == previousLoad + item.w
     IN  /\ previousLoad \notin Top.triedLoads
         /\ ~(newLoad >= bestMakespanW)
         /\ loads' = [loads EXCEPT ![i] = newLoad]
         /\ assign' = [assign EXCEPT ![i] = Append(@, item)]
         /\ stack' = Append(SetTop([Top EXCEPT !.at = "back", !.i = i,
                                               !.previousLoad = previousLoad,
                                               !.triedLoads = @ \cup {previousLoad}]),
                            CallFrame(Top.idx + 1))
  /\ UNCHANGED <<searchFrame, seen, bestMakespanW, bestAssign>>

\* variant: the load of team i is reset to its fixed weight
DfsUndo_RestoreBase ==
  /\ pc = "search" /\ stack # <<>> /\ Top.at = "back"
  /\ assign' = [assign EXCEPT ![Top.i] = SubSeq(@, 1, Len(@) - 1)]
  /\ loads' = [loads EXCEPT ![Top.i] = baseW[Top.i]]
  /\ stack' = SetTop([Top EXCEPT !.at = "loop", !.pos = @ + 1])
  /\ UNCHANGED <<searchFrame, seen, bestMakespanW, bestAssign>>

\* variant: the load of team i is not restored
DfsUndo_NoLoadRestore ==
  /\ pc = "search" /\ stack # <<>> /\ Top.at = "back"
  /\ assign' = [assign EXCEPT ![Top.i] = SubSeq(@, 1, Len(@) - 1)]
  /\ stack' = SetTop([Top EXCEPT !.at = "loop", !.pos = @ + 1])
  /\ UNCHANGED <<searchFrame, loads, seen, bestMakespanW, bestAssign>>

\* variant: the item is not popped from the partial list of team i
DfsUndo_NoPop ==
  /\ pc = "search" /\ stack # <<>> /\ Top.at = "back"
  /\ loads' = [loads EXCEPT ![Top.i] = Top.previousLoad]
  /\ stack' = SetTop([Top EXCEPT !.at = "loop", !.pos = @ + 1])
  /\ UNCHANGED <<searchFrame, assign, seen, bestMakespanW, bestAssign>>

\* lines 94-95: the call returned; undo the placement
DfsUndo ==
  /\ pc = "search" /\ stack # <<>> /\ Top.at = "back"
  /\ assign' = [assign EXCEPT ![Top.i] = SubSeq(@, 1, Len(@) - 1)]
  /\ loads' = [loads EXCEPT ![Top.i] = Top.previousLoad]
  /\ stack' = SetTop([Top EXCEPT !.at = "loop", !.pos = @ + 1])
  /\ UNCHANGED <<searchFrame, seen, bestMakespanW, bestAssign>>

\* line 96-97: the loop is exhausted, dfs returns
DfsReturn ==
  /\ AtLoop
  /\ Top.pos > teamCount
  /\ stack' = Pop
  /\ UNCHANGED <<searchFrame, loads, assign, seen, bestMakespanW, bestAssign>>

\* ------------------------------------------------- assembly (lines 101-114)
\* variant: the total is rebuilt from the quantized weight
AddMinutes_FromWeight(total, item) == total + item.w * q

\* teams[i].totalMinutes += item.minutes
AddMinutes(total, item) == total + item.minutes

RECURSIVE TotalWith(_, _)
TotalWith(total, items) ==
  IF items = <<>> THEN total
  ELSE TotalWith(AddMinutes(total, Head(items)), Tail(items))

\* variant: the list does not start from the pinned jobs
TeamJobs_FreeOnly(fixed, items) == SortByMinutesDesc(OutJobs(items))

\* jobs: [...fixedAssign[i]] followed by the pushed free items, then sorted
TeamJobs(fixed, items) == SortByMinutesDesc(fixed \o OutJobs(items))

\* variant: totalMinutes starts from 0 instead of the pinned minutes
BuildTeams_TotalFromZero ==
  [t \in Teams |-> [jobs |-> TeamJobs(fixedAssign[t], bestAssign[t]),
                    totalMinutes |-> TotalWith(0, bestAssign[t])]]

BuildTeams ==
  [t \in Teams |-> [jobs |-> TeamJobs(fixedAssign[t], bestAssign[t]),
                    totalMinutes |-> TotalWith(fixedLoads[t], bestAssign[t])]]

Assemble ==
  /\ pc = "search"
  /\ stack = <<>>
  /\ teams' = BuildTeams
  /\ pc' = "done"
  /\ UNCHANGED <<inputVars, pageVars, sheetVars, run, firstTeams, fixedLoads, fixedAssign, free,
                 baseW, freeItems, loads0, assign0, bestMakespanW, bestAssign,
                 avgLB, baseMax, loads, assign, seen, stack>>

\* a second invocation on the same arguments; every local of the function
\* is created again by the steps above
Reinvoke ==
  /\ pc = "done"
  /\ run = 1
  /\ run' = 2
  /\ firstTeams' = teams
  /\ pc' = "partition"
  /\ UNCHANGED <<inputVars, pageVars, sheetVars, fixedLoads, fixedAssign, free, baseW, freeItems,
                 loads0, assign0, bestMakespanW, bestAssign, avgLB, baseMax,
                 loads, assign, seen, stack, teams>>

Next ==
  \/ Partition
  \/ Quantize
  \/ GreedyBaseline
  \/ SearchSetup
  \/ DfsTerminal
  \/ DfsPrune
  \/ DfsSeen
  \/ DfsExpand
  \/ DfsSkipTried
  \/ DfsSkipLoad
  \/ DfsDescend
  \/ DfsUndo
  \/ DfsReturn
  \/ Assemble

Spec == Init /\ [][Next]_vars

NextTwice == Next \/ Reinvoke

SpecTwice == Init /\ [][NextTwice]_vars

\* ------------------------------------------------ text (src/js/time.js)
\* A text is a sequence of one-character strings over this alphabet; "x"
\* stands for a letter that no number syntax uses.
Digits == {"0", "1", "2", "3", "4", "5", "6", "7", "8", "9"}

DigitVal(c) ==
  CASE c = "0" -> 0 [] c = "1" -> 1 [] c = "2" -> 2 [] c = "3" -> 3
    [] c = "4" -> 4 [] c = "5" -> 5 [] c = "6" -> 6 [] c = "7" -> 7
    [] c = "8" -> 8 [] c = "9" -> 9

DigitChar(n) == CHOOSE c \in Digits : DigitVal(c) = n

\* String(n) for n >= 0
RECURSIVE ToText(_)
ToText(n) == IF n < 10 THEN <<DigitChar(n)>>
             ELSE ToText(n \div 10) \o <<DigitChar(n % 10)>>

\* a number that parsing produced: NaN, or the integer val
NaN == [nan |-> TRUE, val |-> 0]
Num(n) == [nan |-> FALSE, val |-> n]

\* Number.isFinite(x) for a parsed number
IsFinite(x) == ~x.nan

RECURSIVE TrimStart(_)
TrimStart(s) == IF s # <<>> /\ Head(s) = " " THEN TrimStart(Tail(s)) ELSE s

RECURSIVE TrimEnd(_)
TrimEnd(s) == IF s # <<>> /\ s[Len(s)] = " "
              THEN TrimEnd(SubSeq(s, 1, Len(s) - 1)) ELSE s

\* String.prototype.trim
Trim(s) == TrimEnd(TrimStart(s))

\* the longest prefix of s made of digits
RECURSIVE DigitRun(_)
DigitRun(s) == IF s # <<>> /\ Head(s) \in Digits
               THEN <<Head(s)>> \o DigitRun(Tail(s)) ELSE <<>>

RECURSIVE DecimalValue(_)
DecimalValue(ds) ==
  IF ds = <<>> THEN 0
  ELSE 10 * DecimalValue(SubSeq(ds, 1, Len(ds) - 1)) + DigitVal(ds[Len(ds)])

RECURSIVE PowerOfTen(_)
PowerOfTen(n) == IF n = 0 THEN 1 ELSE 10 * PowerOfTen(n - 1)

\* text after an optional sign
Unsigned(t) == IF t # <<>> /\ Head(t) \in {"-", "+"} THEN Tail(t) ELSE t

\* parseInt(s, 10): leading blanks, an optional sign, then digits; what
\* follows the digits is ignored; NaN when there is no digit
ParseInt(s) ==
  LET t == TrimStart(s)
      ds == DigitRun(Unsigned(t))
  IN  IF ds = <<>> THEN NaN
      ELSE IF Head(t) = "-" THEN Num(0 - DecimalValue(ds)) ELSE Num(DecimalValue(ds))

\* parseFloat(s) as NaN or the fraction num / den: leading blanks, an optional
\* sign, digits, an optional point and digits; NaN when there is no digit
ParseFloat(s) ==
  LET t == TrimStart(s)
      u == Unsigned(t)
      ip == DigitRun(u)
      rest == SubSeq(u, Len(ip) + 1, Len(u))
      fp == IF rest # <<>> /\ Head(rest) = "." THEN DigitRun(Tail(rest)) ELSE <<>>
      mag == DecimalValue(ip \o fp)
  IN  IF ip = <<>> /\ fp = <<>> THEN [nan |-> TRUE, num |-> 0, den |-> 1]
      ELSE [nan |-> FALSE,
            num |-> IF Head(t) = "-" THEN 0 - mag ELSE mag,
            den |-> PowerOfTen(Len(fp))]

\* value.includes(c)
Includes(s, c) == \E i \in 1..Len(s) : s[i] = c

IndexOf(s, c) == CHOOSE i \in 1..Len(s) : s[i] = c /\ \A j \in 1..(i - 1) : s[j] # c

\* value.split(":")
RECURSIVE Split(_, _)
Split(s, c) ==
  IF ~Includes(s, c) THEN <<s>>
  ELSE <<SubSeq(s, 1, IndexOf(s, c) - 1)>> \o Split(SubSeq(s, IndexOf(s, c) + 1, Len(s)), c)

\* value.replace(",", "."): the first occurrence only
ReplaceFirst(s, c, d) ==
  IF Includes(s, c) THEN [s EXCEPT ![IndexOf(s, c)] = d] ELSE s

\* a message built from fixed text around a variable part
Message(pre, arg, post) == [pre |-> pre, arg |-> arg, post |-> post]

\* a returned value / a thrown Error
Returned(v) == [ok |-> TRUE, value |-> v]
Thrown(m) == [ok |-> FALSE, value |-> m]

\* Math.round(hours * 60) for hours = num / den
HoursToMinutes(hours) == (2 * 60 * hours.num + hours.den) \div (2 * hours.den)

\* parseTimeToMinutes (time.js lines 1-21)
ParseTimeToMinutes(input) ==
  LET value == Trim(input)
      parts == Split(value, ":")
      hh == ParseInt(Trim(parts[1]))
      mm == ParseInt(Trim(parts[2]))
      hours == ParseFloat(ReplaceFirst(value, ",", "."))
  IN  IF value = <<>> THEN Thrown(Message("Duration is empty", <<>>, ""))
      ELSE IF Includes(value, ":")
      THEN IF Len(parts) # 2 THEN Thrown(Message("Invalid time: ", value, ""))
           ELSE IF ~IsFinite(hh) \/ ~IsFinite(mm)
                THEN Thrown(Message("Invalid time: ", value, ""))
           ELSE IF mm.val < 0 \/ mm.val > 59
                THEN Thrown(Message("Minutes must be between 0 and 59: ", value, ""))
           ELSE Returned(hh.val * 60 + mm.val)
      ELSE IF hours.nan THEN Thrown(Message("Invalid time: ", value, ""))
           ELSE IF HoursToMinutes(hours) <= 0
                THEN Thrown(Message("Duration must be greater than 0", <<>>, ""))
           ELSE Returned(HoursToMinutes(hours))

\* ------------------------------------------------ direct calls of the core
\* Everything of the starting state that is not an argument of the call.
InitLocals ==
  /\ pc = "partition"
  /\ run = 1
  /\ firstTeams = <<>>
  /\ fixedLoads = <<>> /\ fixedAssign = <<>> /\ free = <<>>
  /\ baseW = <<>> /\ freeItems = <<>>
  /\ loads0 = <<>> /\ assign0 = <<>>
  /\ bestMakespanW = 0 /\ bestAssign = <<>>
  /\ avgLB = 0 /\ baseMax = 0
  /\ loads = <<>> /\ assign = <<>> /\ seen = {}
  /\ stack = <<>>
  /\ teams = <<>>
  /\ PageUnused
  /\ SheetsUnused

\* The exported function called with any integer fixedTeam: negative, 0, in
\* range, above teamCount.
InitAnyFixedTeam ==
  /\ teamCount \in 1..MaxTeams
  /\ quant \in Quanta
  /\ \E n \in 0..MaxJobs :
       \E ms \in [1..n -> Durations] :
         \E fs \in [1..n -> (0 - 1)..(teamCount + 1)] :
           /\ Cardinality({i \in 1..n : fs[i] # 0}) <= MaxPinned
           /\ jobsMinutes = [i \in 1..n |->
                               [name |-> i, minutes |-> ms[i], fixedTeam |-> fs[i]]]
  /\ InitLocals

SpecAnyFixedTeam == InitAnyFixedTeam /\ [][Next]_vars

\* The first two steps of the call (lines 2-31) on their own, with quanta
\* that exceed the shortest durations and several jobs pinned to one team.
QuantaCoarse == Quanta \cup {3, 4, 5}

InitQuantize ==
  /\ teamCount \in 1..MaxTeams
  /\ quant \in QuantaCoarse
  /\ \E n \in 0..MaxJobs :
       \E ms \in [1..n -> Durations] :
         \E fs \in [1..n -> 0..teamCount] :
           /\ Cardinality({i \in 1..n : fs[i] # 0}) <= MaxPinned + 1
           /\ jobsMinutes = [i \in 1..n |->
                               [name |-> i, minutes |-> ms[i], fixedTeam |-> fs[i]]]
  /\ InitLocals

NextQuantize == Partition \/ Quantize

SpecQuantize == InitQuantize /\ [][NextQuantize]_vars

\* The call up to the greedy baseline (lines 2-45) on its own: job lists in
\* any order, at most one job pinned (anywhere in the list), MaxTeams teams
\* or one more.
InitGreedy ==
  /\ teamCount \in {MaxTeams, MaxTeams + 1}
  /\ quant \in Quanta
  /\ \E n \in 0..MaxJobs :
       \E ms \in [1..n -> Durations] :
         \E pinned \in 0..n :
           \E t \in Teams :
             jobsMinutes = [i \in 1..n |->
                              [name |-> i, minutes |-> ms[i],
                               fixedTeam |-> IF i = pinned THEN t ELSE 0]]
  /\ InitLocals

NextGreedy == Partition \/ Quantize \/ GreedyBaseline

SpecGreedy == InitGreedy /\ [][NextGreedy]_vars

\* Deeper searches: up to one team more than MaxTeams, a 1-minute job pinned
\* to each of the first teams, then the free jobs (one more than MaxJobs at
\* most), shortest first, with durations up to 5 minutes.
DeepDurations == 1..5

InitDeep ==
  /\ teamCount \in {MaxTeams, MaxTeams + 1}
  /\ quant \in Quanta
  /\ \E k \in 0..MaxPinned :
       \E n \in 0..(MaxJobs + 1) :
         \E ms \in [1..n -> DeepDurations] :
           /\ \A i \in 1..(n - 1) : ms[i] <= ms[i + 1]
           /\ jobsMinutes = [i \in 1..(k + n) |->
                               IF i <= k
                               THEN [name |-> i, minutes |-> 1, fixedTeam |-> i]
                               ELSE [name |-> i, minutes |-> ms[i - k], fixedTeam |-> 0]]
  /\ InitLocals

SpecDeep == InitDeep /\ [][Next]_vars

\* The call is synchronous code: whenever a step of it can be taken, one is.
SpecDeepFair == SpecDeep /\ WF_vars(Next)

\* ------------------------------------------- the page (src/unnamed/part_001)
\* most solve() timers that are pending at once
MaxPending == 2

\* HISTORY_TTL_MS, HISTORY_MAX_ITEMS
HistoryTtlMs == 259200000
HistoryMaxItems == 150

\* jobsMinutes.length > 90
LargeList == 90

Min(a, b) == IF a <= b THEN a ELSE b
Max(a, b) == IF a >= b THEN a ELSE b

\* parseInt(x, 10) || fallback
IntOr(x, fallback) == IF x.nan \/ x.val = 0 THEN fallback ELSE x.val

\* currentTeamCount(), currentQuant() (lines 454-460)
CurrentTeamCount == Max(1, IntOr(ParseInt(elK), 1))
CurrentQuant == Max(1, IntOr(ParseInt(elQuant), 1))

NoText == Message("", <<>>, "")

\* setStatus(message, tone)
Status(message, tone) == [text |-> message, tone |-> tone]

\* showError(msg) / clearError()
ErrorShown(msg) == [shown |-> TRUE, text |-> msg]
ErrorHidden == [shown |-> FALSE, text |-> NoText]

\* syncAllFixSelects (lines 468-480): a row's select shows
\* min(fixedTeam, team count) since the last render and is refilled with its
\* own value capped by the team count; the row takes the select's value
SyncAllFixSelects(rows) ==
  [i \in 1..Len(rows) |-> [rows[i] EXCEPT !.fixedTeam = Min(@, CurrentTeamCount)]]

\* one element of jobs.map in solve() (lines 1196-1202)
SolveRow(rows, i, tc) ==
  LET name == Trim(rows[i].name)
      parsed == ParseTimeToMinutes(rows[i].durRaw)
  IN  IF name = <<>> THEN Thrown(Message("Job ", ToText(i), ": address is missing"))
      ELSE IF ~parsed.ok THEN parsed
      ELSE Returned([name |-> name, minutes |-> parsed.value,
                     fixedTeam |-> Min(Max(rows[i].fixedTeam, 0), tc)])

\* variant: an empty job list is not refused
SolveInputs_EmptyAccepted ==
  LET tc == ParseInt(elK)
      qt == ParseInt(elQuant)
      rows == SyncAllFixSelects(jobs)
      failed == {i \in 1..Len(rows) : ~SolveRow(rows, i, tc.val).ok}
  IN  IF ~IsFinite(tc) \/ tc.val < 1
      THEN [rows |-> jobs, result |-> Thrown(Message("Please choose at least 1 team", <<>>, ""))]
      ELSE IF ~IsFinite(qt) \/ qt.val < 1
      THEN [rows |-> jobs, result |-> Thrown(Message("Rounding must be 1 minute or more", <<>>, ""))]
      ELSE IF failed # {}
      THEN [rows |-> rows,
            result |-> SolveRow(rows, CHOOSE i \in failed : \A j \in failed : i <= j, tc.val)]
      ELSE [rows |-> rows,
            result |-> Returned([jobsMinutes |-> [i \in 1..Len(rows) |-> SolveRow(rows, i, tc.val).value],
                                 teamCount |-> tc.val, quant |-> qt.val])]

\* the try block of solve() up to the job list (lines 1188-1202): the rows as
\* it leaves them, and the arguments for the core or the Error thrown
SolveInputs ==
  LET tc == ParseInt(elK)
      qt == ParseInt(elQuant)
      rows == SyncAllFixSelects(jobs)
      failed == {i \in 1..Len(rows) : ~SolveRow(rows, i, tc.val).ok}
  IN  IF ~IsFinite(tc) \/ tc.val < 1
      THEN [rows |-> jobs, result |-> Thrown(Message("Please choose at least 1 team", <<>>, ""))]
      ELSE IF ~IsFinite(qt) \/ qt.val < 1
      THEN [rows |-> jobs, result |-> Thrown(Message("Rounding must be 1 minute or more", <<>>, ""))]
      ELSE IF Len(jobs) = 0
      THEN [rows |-> jobs, result |-> Thrown(Message("Add at least one job", <<>>, ""))]
      ELSE IF failed # {}
      THEN [rows |-> rows,
            result |-> SolveRow(rows, CHOOSE i \in failed : \A j \in failed : i <= j, tc.val)]
      ELSE [rows |-> rows,
            result |-> Returned([jobsMinutes |-> [i \in 1..Len(rows) |-> SolveRow(rows, i, tc.val).value],
                                 teamCount |-> tc.val, quant |-> qt.val])]

\* the status shown while the plan is pending (lines 1204-1213)
CreatingStatus(args) ==
  LET fixedCount == Cardinality({i \in 1..Len(args.jobsMinutes) :
                                   args.jobsMinutes[i].fixedTeam > 0})
  IN  IF Len(args.jobsMinutes) > LargeList /\ args.quant = 1
      THEN Message("Creating plan. This can take a moment for larger lists.", <<>>, "")
      ELSE IF fixedCount # 0
      THEN Message("Creating plan with ", ToText(fixedCount), " assigned jobs...")
      ELSE Message("Creating plan...", <<>>, "")

\* sanitizePlanSnapshot (lines 120-157)
SanitizePlanSnapshot(raw) ==
  IF raw = NoPlan THEN NoPlan
  ELSE LET tc == Max(1, raw.teamCount)
           clean == [t \in 1..Len(raw.teams) |->
                       [teamIndex |-> t,
                        totalMinutes |-> Max(0, raw.teams[t].totalMinutes),
                        jobs |-> SelectSeq(raw.teams[t].jobs,
                                           LAMBDA job : job.minutes > 0)]]
           cut == SubSeq(clean, 1, Min(tc, Len(clean)))
       IN  IF cut = <<>> THEN NoPlan
           ELSE [teamCount |-> tc,
                 jobCount |-> Max(0, raw.jobCount),
                 minMinutes |-> Max(0, raw.minMinutes),
                 maxMinutes |-> Max(0, raw.maxMinutes),
                 gapMinutes |-> Max(0, raw.gapMinutes),
                 teams |-> cut]

\* buildPlanSnapshot(result, teamCount, jobCount) (lines 159-180)
BuildPlanSnapshot(result, tc, jobCount) ==
  LET totals == [t \in 1..Len(result) |-> Max(0, result[t].totalMinutes)]
      minMinutes == IF totals = <<>> THEN 0 ELSE 0 - MaxSeq([t \in 1..Len(totals) |-> 0 - totals[t]])
      maxMinutes == IF totals = <<>> THEN 0 ELSE MaxSeq(totals)
  IN  SanitizePlanSnapshot(
        [teamCount |-> tc, jobCount |-> jobCount,
         minMinutes |-> minMinutes, maxMinutes |-> maxMinutes,
         gapMinutes |-> maxMinutes - minMinutes,
         teams |-> [t \in 1..Len(result) |->
                      [teamIndex |-> t, totalMinutes |-> result[t].totalMinutes,
                       jobs |-> result[t].jobs]]])

\* normalizeJobForSave (lines 483-489)
NormalizeJobForSave(job) ==
  [name |-> Trim(job.name), durRaw |-> Trim(job.durRaw), fixedTeam |-> Max(0, job.fixedTeam)]

NormalizedJobs(rows) == [i \in 1..Len(rows) |-> NormalizeJobForSave(rows[i])]

\* the filter of sanitizeHistoryEntry (line 588)
WorthSaving(job) == job.name # <<>> \/ job.durRaw # <<>> \/ job.fixedTeam > 0

\* sanitizeHistoryEntry kept the entry (lines 580-590)
Kept(entry) ==
  /\ ~(entry.createdAt < now - HistoryTtlMs)
  /\ SelectSeq(NormalizedJobs(entry.jobs), WorthSaving) # <<>>

\* sanitizeHistoryEntry on a kept entry (lines 591-601)
SanitizeHistoryEntry(entry) ==
  [entry EXCEPT !.jobs = SelectSeq(NormalizedJobs(entry.jobs), WorthSaving),
                !.k = Max(1, @),
                !.quant = Max(1, @),
                !.planSnapshot = SanitizePlanSnapshot(@)]

\* the place of entry i after clean.sort((a, b) => b.createdAt - a.createdAt)
\* (line 611), a stable sort: behind the newer entries and the earlier ones
\* of the same time.  created is the list of the entries' createdAt.
PlaceByCreatedAt(created, i) ==
  1 + Cardinality({j \in 1..Len(created) :
                     created[j] > created[i] \/ (created[j] = created[i] /\ j < i)})

SortByCreatedAtDesc(entries) ==
  CHOOSE sorted \in
    {[k \in 1..Len(es) |-> es[CHOOSE i \in 1..Len(es) : place[i] = k]] :
       es \in {<<>> \o entries},
       place \in {<<>> \o [i \in 1..Len(entries) |->
                               PlaceByCreatedAt(<<>> \o [j \in 1..Len(entries) |-> entries[j].createdAt], i)]}} : TRUE

\* variant: the list is not cut to HISTORY_MAX_ITEMS
CleanupHistory_Uncut(entries) ==
  SortByCreatedAtDesc([i \in 1..Len(SelectSeq(entries, Kept)) |->
                         SanitizeHistoryEntry(SelectSeq(entries, Kept)[i])])

\* cleanupHistory (lines 604-613)
CleanupHistory(entries) ==
  LET kept == SelectSeq(entries, Kept)
      clean == [i \in 1..Len(kept) |-> SanitizeHistoryEntry(kept[i])]
      sorted == SortByCreatedAtDesc(clean)
  IN  SubSeq(sorted, 1, Min(HistoryMaxItems, Len(sorted)))

\* the id saveCheckpoint(label) uses: editingCheckpointId || makeId()
CheckpointId == IF editingCheckpointId # NoId THEN editingCheckpointId ELSE ToText(idSeq + 1)

\* createCheckpoint(label, id) (lines 690-702) on the page as the handler
\* has left it
CreateCheckpoint(label, id, rows, out, status, snapshot) ==
  [id |-> id, createdAt |-> now, label |-> label,
   jobs |-> NormalizedJobs(rows),
   k |-> CurrentTeamCount, quant |-> CurrentQuant,
   outputText |-> out, statusText |-> status.text,
   planSnapshot |-> snapshot]

\* solveHistory after saveCheckpoint(label) (lines 704-719)
SavedHistory(label, rows, out, status, snapshot) ==
  LET checkpoint == CreateCheckpoint(label, CheckpointId, rows, out, status, snapshot)
      found == {i \in 1..Len(solveHistory) : solveHistory[i].id = CheckpointId}
  IN  CleanupHistory(IF found # {}
                     THEN [solveHistory EXCEPT ![CHOOSE i \in found : \A j \in found : i <= j] = checkpoint]
                     ELSE <<checkpoint>> \o solveHistory)

\* saveCheckpoint(label) (lines 704-723)
SaveCheckpoint(label, rows, out, status, snapshot) ==
  /\ solveHistory' = SavedHistory(label, rows, out, status, snapshot)
  /\ editingCheckpointId' = CheckpointId
  /\ idSeq' = IF editingCheckpointId # NoId THEN idSeq ELSE idSeq + 1

coreVars == <<jobsMinutes, teamCount, quant, pc, run, firstTeams,
              fixedLoads, fixedAssign, free, baseW, freeItems,
              loads0, assign0, bestMakespanW, bestAssign, avgLB, baseMax,
              loads, assign, seen, stack, teams>>

\* no call of the core is in progress
CoreIdle ==
  /\ jobsMinutes = <<>> /\ teamCount = 0 /\ quant = 0
  /\ pc = "idle"
  /\ run = 1
  /\ firstTeams = <<>>
  /\ fixedLoads = <<>> /\ fixedAssign = <<>> /\ free = <<>>
  /\ baseW = <<>> /\ freeItems = <<>>
  /\ loads0 = <<>> /\ assign0 = <<>>
  /\ bestMakespanW = 0 /\ bestAssign = <<>>
  /\ avgLB = 0 /\ baseMax = 0
  /\ loads = <<>> /\ assign = <<>> /\ seen = {}
  /\ stack = <<>>
  /\ teams = <<>>

\* the call of the core is over and its frame is gone
CoreReturns ==
  /\ jobsMinutes' = <<>> /\ teamCount' = 0 /\ quant' = 0
  /\ pc' = "idle"
  /\ run' = 1
  /\ firstTeams' = <<>>
  /\ fixedLoads' = <<>> /\ fixedAssign' = <<>> /\ free' = <<>>
  /\ baseW' = <<>> /\ freeItems' = <<>>
  /\ loads0' = <<>> /\ assign0' = <<>>
  /\ bestMakespanW' = 0 /\ bestAssign' = <<>>
  /\ avgLB' = 0 /\ baseMax' = 0
  /\ loads' = <<>> /\ assign' = <<>> /\ seen' = {}
  /\ stack' = <<>>
  /\ teams' = <<>>

\* solve() is entered (lines 1182-1185)
SolveEnter ==
  /\ uiPc = "idle"
  /\ ~confirm.open
  /\ Len(timers) < MaxPending
  /\ elErr' = ErrorHidden
  /\ elOut' = NoPlan
  /\ latestPlanSnapshot' = NoPlan
  /\ uiPc' = "solve"
  /\ UNCHANGED <<coreVars, sheetVars, jobs, elK, elQuant, elStatus, solveHistory,
                 editingCheckpointId, idSeq, now, timers, confirm>>

\* the try/catch of solve() (lines 1187-1237)
SolveBody ==
  /\ uiPc = "solve"
  /\ LET inputs == SolveInputs
     IN  /\ jobs' = inputs.rows
         /\ IF inputs.result.ok
            THEN /\ elStatus' = Status(CreatingStatus(inputs.result.value), "neutral")
                 /\ timers' = Append(timers, inputs.result.value)
                 /\ UNCHANGED <<elErr, solveHistory, editingCheckpointId, idSeq>>
            ELSE /\ elStatus' = Status(Message("Please review your inputs.", <<>>, ""), "bad")
                 /\ elErr' = ErrorShown(inputs.result.value)
                 /\ UNCHANGED timers
                 /\ IF Len(inputs.rows) > 0
                    THEN SaveCheckpoint("Needs review", inputs.rows, elOut, elStatus', latestPlanSnapshot)
                    ELSE UNCHANGED <<solveHistory, editingCheckpointId, idSeq>>
  /\ uiPc' = "idle"
  /\ UNCHANGED <<coreVars, sheetVars, elK, elQuant, elOut, latestPlanSnapshot, now, confirm>>

\* the oldest timer fires: the callback calls the core (lines 1215-1217)
TimerFires ==
  /\ uiPc = "idle"
  /\ timers # <<>>
  /\ jobsMinutes' = Head(timers).jobsMinutes
  /\ teamCount' = Head(timers).teamCount
  /\ quant' = Head(timers).quant
  /\ timers' = Tail(timers)
  /\ pc' = "partition"
  /\ uiPc' = "callback"
  /\ UNCHANGED <<run, firstTeams, fixedLoads, fixedAssign, free, baseW, freeItems,
                 loads0, assign0, bestMakespanW, bestAssign, avgLB, baseMax,
                 loads, assign, seen, stack, teams,
                 jobs, elK, elQuant, elStatus, elErr, elOut, latestPlanSnapshot,
                 solveHistory, editingCheckpointId, idSeq, now, confirm, sheetVars>>

\* the core has returned: the rest of the callback (lines 1218-1222).  The
\* catch branch (lines 1223-1229) needs a throw from the core or from the
\* rendering, which these inputs never cause.
CallbackFinish ==
  /\ uiPc = "callback"
  /\ pc = "done"
  /\ LET snapshot == BuildPlanSnapshot(teams, teamCount, Len(jobsMinutes))
     IN  /\ latestPlanSnapshot' = snapshot
         /\ elOut' = snapshot
         /\ elStatus' = Status(Message("Plan ready.", <<>>, ""), "ok")
         /\ SaveCheckpoint("Planned", jobs, elOut', elStatus', snapshot)
  /\ CoreReturns
  /\ uiPc' = "idle"
  /\ UNCHANGED <<sheetVars, jobs, elK, elQuant, elErr, now, timers, confirm>>

\* the texts the page is started with
TeamTexts == {ToText(k) : k \in 1..MaxTeams}
BadCountTexts == {<<>>, <<"0">>, <<"x">>}
QuantTexts == {<<"1">>, <<"3", "0">>}
DurTexts == {<<".", "5">>, <<"1", ".", "5">>}
OddDurTexts == {<<>>, <<"x">>, <<"0">>, <<"0", ":", "0", "0">>, <<"0", ":", "4", "5">>,
                <<"1", ":", "6", "0">>, <<"1", ":", "2", ":", "3">>,
                <<"-", "1", ":", "3", "0">>}
BlankTexts == {<<>>, <<" ">>}
NameText == <<"a">>

\* a table of n well-formed rows; only the first row may be pinned
WellFormedTables ==
  UNION {{[i \in 1..n |-> [name |-> NameText, durRaw |-> ds[i],
                           fixedTeam |-> IF i = 1 THEN f ELSE 0]] :
            ds \in [1..n -> DurTexts], f \in 0..MaxTeams} : n \in 0..MaxJobs}

\* a table of n rows of 1.5 hours whose last row has been altered
AlteredTables ==
  UNION {{[i \in 1..n |-> IF i < n
                          THEN [name |-> NameText, durRaw |-> <<"1", ".", "5">>, fixedTeam |-> 0]
                          ELSE r] :
            r \in {[name |-> nm, durRaw |-> <<"1", ".", "5">>, fixedTeam |-> 0] : nm \in BlankTexts}
                  \cup {[name |-> NameText, durRaw |-> d, fixedTeam |-> 0] : d \in OddDurTexts}} :
         n \in 1..MaxJobs}

\* The page with a job table and both inputs filled in, nothing solved yet:
\* well-formed inputs, or inputs with one thing wrong.
InitSolve ==
  /\ \/ jobs \in WellFormedTables /\ elK \in TeamTexts /\ elQuant \in QuantTexts
     \/ jobs \in AlteredTables /\ elK \in TeamTexts /\ elQuant \in QuantTexts
     \/ jobs \in AlteredTables /\ elK \in BadCountTexts /\ elQuant \in QuantTexts
     \/ jobs \in AlteredTables /\ elK \in TeamTexts /\ elQuant \in BadCountTexts
  /\ elStatus = Status(NoText, "neutral")
  /\ elErr = ErrorHidden
  /\ elOut = NoPlan
  /\ latestPlanSnapshot = NoPlan
  /\ solveHistory = <<>>
  /\ editingCheckpointId = NoId
  /\ idSeq = 0
  /\ now = 0
  /\ timers = <<>>
  /\ uiPc = "idle"
  /\ confirm = NoConfirm
  /\ CoreIdle
  /\ SheetsUnused

NextSolve == SolveEnter \/ SolveBody \/ TimerFires \/ Next \/ CallbackFinish

SpecSolve == InitSolve /\ [][NextSolve]_vars

\* ----------------------------------- the page: what the user does to it
\* most things the user does after the page has started, one in a
\* millisecond
MaxClock == 2

\* The address list is empty here (the cache has no records), so
\* findByAddress finds nothing and no duration is filled in from it.

\* what the user types into the add form and into a row
AddNames == {NameText, <<" ">>}
AddDurs == {<<"1">>, <<"x">>}
RowNames == {<<"b">>}
RowDurs == {<<"2">>}

\* the option of the history select at the time of a click: "Start a new
\* check" (NoId), the newest saved checks or the oldest one
Selectable ==
  {NoId} \cup {solveHistory[i].id : i \in {1, 2, Len(solveHistory)} \cap 1..Len(solveHistory)}

\* the saved check with this id (lines 772, 803)
EntryOf(id) == solveHistory[CHOOSE i \in 1..Len(solveHistory) : solveHistory[i].id = id]

\* saveCheckpoint(label, id, allowCreate) for a given id (lines 704-723)
SaveCheckpointAs(id, allowCreate, label, rows, out, status, snapshot) ==
  LET checkpoint == CreateCheckpoint(label, id, rows, out, status, snapshot)
      found == {i \in 1..Len(solveHistory) : solveHistory[i].id = id}
  IN  IF found = {} /\ ~allowCreate
      THEN UNCHANGED <<solveHistory, editingCheckpointId>>
      ELSE /\ solveHistory' =
                CleanupHistory(IF found # {}
                               THEN [solveHistory EXCEPT ![CHOOSE i \in found : \A j \in found : i <= j] = checkpoint]
                               ELSE <<checkpoint>> \o solveHistory)
           /\ editingCheckpointId' = id

\* saveOrCreateCheckpointProgress(label) with sel selected (lines 731-740)
SaveOrCreateCheckpointProgress(sel, label, rows, out, status, snapshot) ==
  IF sel # NoId
  THEN /\ SaveCheckpointAs(sel, FALSE, label, rows, out, status, snapshot)
       /\ UNCHANGED idSeq
  ELSE IF Len(rows) = 0
  THEN UNCHANGED <<solveHistory, editingCheckpointId, idSeq>>
  ELSE SaveCheckpoint(label, rows, out, status, snapshot)

\* the user is free to act: no handler is running and no dialog is open
UserIdle == uiPc = "idle" /\ ~confirm.open

\* a millisecond passes before the next event
ClockAdvances ==
  /\ now < HistoryMaxItems + MaxClock
  /\ now' = now + 1

\* addFromInputs (lines 1124-1140) with addJob (lines 1026-1044)
AddFromInputs ==
  /\ UserIdle
  /\ ClockAdvances
  /\ \E nm \in AddNames, dr \in AddDurs, fx \in {0}, sel \in Selectable :
       LET parsedName == Trim(nm)
           parsed == ParseTimeToMinutes(Trim(dr))
           row == [name |-> parsedName, durRaw |-> Trim(dr), fixedTeam |-> fx]
       IN  IF parsedName = <<>>
           THEN /\ elErr' = ErrorShown(Message("Enter an address first", <<>>, ""))
                /\ UNCHANGED <<jobs, solveHistory, editingCheckpointId, idSeq>>
           ELSE IF ~parsed.ok
           THEN /\ elErr' = ErrorShown(parsed.value)
                /\ UNCHANGED <<jobs, solveHistory, editingCheckpointId, idSeq>>
           ELSE /\ elErr' = ErrorHidden
                /\ jobs' = Append(jobs, row)
                /\ SaveOrCreateCheckpointProgress(sel, "Updated", jobs', elOut, elStatus,
                                                  latestPlanSnapshot)
  /\ UNCHANGED <<coreVars, sheetVars, elK, elQuant, elStatus, elOut, latestPlanSnapshot,
                 timers, uiPc, confirm>>

\* a row's address, duration or team is edited (lines 934-939, 957-960,
\* 997-1000)
EditRow ==
  /\ UserIdle
  /\ ClockAdvances
  /\ \E i \in 1..Len(jobs) :
       \/ \E nm \in RowNames : jobs' = [jobs EXCEPT ![i].name = nm]
       \/ \E dr \in RowDurs : jobs' = [jobs EXCEPT ![i].durRaw = dr]
       \/ \E fx \in {1} : jobs' = [jobs EXCEPT ![i].fixedTeam = fx]
  /\ UNCHANGED <<coreVars, sheetVars, elK, elQuant, elStatus, elErr, elOut,
                 latestPlanSnapshot, solveHistory, editingCheckpointId, idSeq, timers,
                 uiPc, confirm>>

\* a row's delete button (lines 1008-1012)
DeleteRow ==
  /\ UserIdle
  /\ ClockAdvances
  /\ \E i \in 1..Len(jobs) :
       jobs' = [k \in 1..(Len(jobs) - 1) |-> IF k < i THEN jobs[k] ELSE jobs[k + 1]]
  /\ UNCHANGED <<coreVars, sheetVars, elK, elQuant, elStatus, elErr, elOut,
                 latestPlanSnapshot, solveHistory, editingCheckpointId, idSeq, timers,
                 uiPc, confirm>>

\* the Clear button (lines 1258-1271)
Clear ==
  /\ UserIdle
  /\ ClockAdvances
  /\ jobs' = <<>>
  /\ editingCheckpointId' = NoId
  /\ latestPlanSnapshot' = NoPlan
  /\ elOut' = NoPlan
  /\ elStatus' = Status(NoText, "neutral")
  /\ elErr' = ErrorHidden
  /\ UNCHANGED <<coreVars, sheetVars, elK, elQuant, solveHistory, idSeq, timers,
                 uiPc, confirm>>

\* loadSelectedCheckpoint with restoreCheckpoint (lines 742-775); the date in
\* the status is shown as the number createdAt
LoadSelectedCheckpoint ==
  /\ UserIdle
  /\ ClockAdvances
  /\ \E sel \in Selectable \ {NoId} :
       LET entry == EntryOf(sel)
       IN  /\ editingCheckpointId' = entry.id
           /\ jobs' = [i \in 1..Len(entry.jobs) |->
                         [entry.jobs[i] EXCEPT !.fixedTeam = Min(@, entry.k)]]
           /\ elK' = ToText(entry.k)
           /\ elQuant' = ToText(entry.quant)
           /\ latestPlanSnapshot' = entry.planSnapshot
           /\ elOut' = IF entry.planSnapshot # NoPlan THEN entry.planSnapshot
                       ELSE entry.outputText
           /\ elStatus' = Status(Message("Check opened (", ToText(entry.createdAt), ")."), "ok")
           /\ elErr' = ErrorHidden
  /\ UNCHANGED <<coreVars, sheetVars, solveHistory, idSeq, timers, uiPc, confirm>>

\* deleteSelectedCheckpoint up to the dialog (lines 799-812)
DeleteAsk ==
  /\ UserIdle
  /\ ClockAdvances
  /\ \E sel \in Selectable \ {NoId} :
       confirm' = [open |-> TRUE, kind |-> "delete", id |-> sel]
  /\ UNCHANGED <<coreVars, sheetVars, jobs, elK, elQuant, elStatus, elErr, elOut,
                 latestPlanSnapshot, solveHistory, editingCheckpointId, idSeq, timers,
                 uiPc>>

\* clearHistory up to the dialog (lines 777-785)
ClearHistoryAsk ==
  /\ UserIdle
  /\ ClockAdvances
  /\ solveHistory # <<>>
  /\ confirm' = [open |-> TRUE, kind |-> "clear", id |-> NoId]
  /\ UNCHANGED <<coreVars, sheetVars, jobs, elK, elQuant, elStatus, elErr, elOut,
                 latestPlanSnapshot, solveHistory, editingCheckpointId, idSeq, timers,
                 uiPc>>

\* the dialog is dismissed: both handlers return (lines 785, 812)
ConfirmCancel ==
  /\ uiPc = "idle"
  /\ ClockAdvances
  /\ confirm.open
  /\ confirm' = NoConfirm
  /\ UNCHANGED <<coreVars, sheetVars, jobs, elK, elQuant, elStatus, elErr, elOut,
                 latestPlanSnapshot, solveHistory, editingCheckpointId, idSeq, timers,
                 uiPc>>

\* the dialog is confirmed: the rest of deleteSelectedCheckpoint (lines
\* 814-823) or of clearHistory (lines 787-796)
ConfirmOk ==
  /\ uiPc = "idle"
  /\ ClockAdvances
  /\ confirm.open
  /\ IF confirm.kind = "delete"
     THEN /\ solveHistory' = SelectSeq(solveHistory, LAMBDA x : x.id # confirm.id)
          /\ editingCheckpointId' = IF editingCheckpointId = confirm.id THEN NoId
                                    ELSE editingCheckpointId
          /\ elStatus' = Status(Message("Check deleted.", <<>>, ""), "ok")
     ELSE /\ solveHistory' = <<>>
          /\ editingCheckpointId' = NoId
          /\ elStatus' = Status(Message("All checks cleared.", <<>>, ""), "ok")
  /\ confirm' = NoConfirm
  /\ UNCHANGED <<coreVars, sheetVars, jobs, elK, elQuant, elErr, elOut, latestPlanSnapshot,
                 idSeq, timers, uiPc>>

\* a saved check as loadHistoryFromStorage finds it (lines 678-688)
StoredEntry(i) ==
  [id |-> ToText(1000 + i), createdAt |-> HistoryMaxItems - i, label |-> "Updated",
   jobs |-> <<[name |-> NameText, durRaw |-> <<"1">>, fixedTeam |-> 0]>>,
   k |-> 2, quant |-> 30,
   outputText |-> NoPlan, statusText |-> NoText, planSnapshot |-> NoPlan]

\* a history that has reached HISTORY_MAX_ITEMS
FullHistory == [i \in 1..HistoryMaxItems |-> StoredEntry(i)]

\* the page after its start (lines 1435-1440), nothing solved yet
PageStarted ==
  /\ elK = <<"2">>
  /\ elQuant = <<"1">>
  /\ elStatus = Status(NoText, "neutral")
  /\ elErr = ErrorHidden
  /\ elOut = NoPlan
  /\ latestPlanSnapshot = NoPlan
  /\ editingCheckpointId = NoId
  /\ idSeq = 0
  /\ now = HistoryMaxItems
  /\ timers = <<>>
  /\ uiPc = "idle"
  /\ confirm = NoConfirm
  /\ CoreIdle
  /\ SheetsUnused

\* The page with three rows and no saved check: half an hour pinned to team
\* 1 and two free jobs of an hour and a half (with a fourth row of one hour
\* the search meets a state it has visited).  The user edits the table,
\* clears it, opens saved checks and solves.
InitPage ==
  /\ jobs = [i \in 1..3 |->
               IF i = 1 THEN [name |-> NameText, durRaw |-> <<".", "5">>, fixedTeam |-> 1]
               ELSE [name |-> NameText, durRaw |-> <<"1", ".", "5">>, fixedTeam |-> 0]]
  /\ solveHistory = <<>>
  /\ PageStarted

NextPage ==
  \/ NextSolve
  \/ AddFromInputs
  \/ EditRow
  \/ DeleteRow
  \/ Clear
  \/ LoadSelectedCheckpoint

SpecPage == InitPage /\ [][NextPage]_vars

\* The page with one row or none and the history that was stored, none or a
\* full one; the user adds rows, which saves checks, and opens, deletes and
\* clears saved checks.
InitHistory ==
  /\ jobs \in {<<>>, <<[name |-> NameText, durRaw |-> <<"1">>, fixedTeam |-> 0]>>}
  /\ solveHistory \in {<<>>, FullHistory}
  /\ PageStarted

NextHistory ==
  \/ AddFromInputs
  \/ DeleteRow
  \/ Clear
  \/ LoadSelectedCheckpoint
  \/ DeleteAsk
  \/ ClearHistoryAsk
  \/ ConfirmCancel
  \/ ConfirmOk

SpecHistory == InitHistory /\ [][NextHistory]_vars

\* ------------------------------------- the sheets cache (src/js/sheetsDb.js)
\* most calls of init() and refreshNow() the owner of the cache makes
MaxCalls == 2

\* DEFAULT_TTL_MS, the floor of safeTtl, the retry delay after a failure and
\* the shortest timer delay, in milliseconds
DefaultTtlMs == 600000
MinTtlMs == 60000
RetryMs == 60000
MinDelayMs == 500

\* Times are kept relative to Date.now(): expiresIn is expiresAt - Date.now()
\* (0 once that is reached), refreshedAgo is Date.now() - refreshedAt (-1 for
\* refreshedAt = 0, and no longer counted beyond AgeCap).

\* const safeTtl = Math.max(60 * 1000, Number(ttlMs) || DEFAULT_TTL_MS)
SafeTtl == Max(MinTtlMs, IF ttlMs = 0 THEN DefaultTtlMs ELSE ttlMs)

AgeCap == SafeTtl + RetryMs

\* the links a cache is created with: none, not a sheet link, a bare id, a
\* gviz link, a CSV export link
NoLink == ""
BadLink == "not a sheet link"
IdLink == "1AbC-d_9"
GvizLink == "https://docs.google.com/spreadsheets/d/1AbC-d_9/gviz/tq?sheet=A"
CsvLink == "https://docs.google.com/spreadsheets/d/1AbC-d_9/export?format=csv"
Links == {NoLink, BadLink, IdLink, GvizLink, CsvLink}

\* extractSpreadsheetId (lines 24-31)
ExtractSpreadsheetId(link) ==
  IF link = NoLink THEN Thrown("The sheet link is missing")
  ELSE IF link = BadLink THEN Thrown("The sheet link is not valid")
  ELSE Returned(IdLink)

\* buildEndpointCandidates (lines 41-74): the labels of the candidates
BuildEndpointCandidates(link) ==
  IF ~ExtractSpreadsheetId(link).ok THEN ExtractSpreadsheetId(link)
  ELSE Returned((IF link = GvizLink THEN <<"source-gviz">> ELSE <<>>)
                \o (IF link = CsvLink THEN <<"source-csv">> ELSE <<>>)
                \o <<"id-gviz", "id-csv">>)

\* the Error fetchSheetRows throws when every candidate has failed (line 205)
SyncError == "Could not sync addresses. Make sure sharing is set to \"Anyone with the link (Viewer)\"."

\* toLowerCase on the letters used here
LowerChar(c) == CASE c = "A" -> "a" [] c = "B" -> "b" [] OTHER -> c

\* .replace(/\s+/g, " "): of every run of blanks one blank stays
KeptBlanks(t) == {i \in 1..Len(t) : ~(t[i] = " " /\ i < Len(t) /\ t[i + 1] = " ")}
CollapseBlanks(t) ==
  [r \in 1..Cardinality(KeptBlanks(t)) |->
     t[CHOOSE i \in KeptBlanks(t) : Cardinality({j \in KeptBlanks(t) : j <= i}) = r]]

\* normalizeAddressKey (lines 10-15)
NormalizeAddressKey(value) ==
  CHOOSE k \in {CollapseBlanks([i \in 1..Len(t) |-> LowerChar(t[i])]) : t \in {Trim(value)}} : TRUE

\* no row found
NoRecord == [address |-> <<>>, scheduledTime |-> <<>>]

\* the first row of records whose address has the key target, NoRecord for
\* none (line 325)
FindKey(records, target) ==
  LET hits == {i \in 1..Len(records) : NormalizeAddressKey(records[i].address) = target}
  IN  IF target = <<>> \/ hits = {} THEN NoRecord
      ELSE records[CHOOSE i \in hits : \A j \in hits : i <= j]

\* findByAddress on a record list (lines 322-326); NoRecord for null
FindIn(records, address) ==
  CHOOSE r \in {FindKey(records, target) : target \in {NormalizeAddressKey(address)}} : TRUE

FindByAddress(address) == FindIn(state.records, address)

\* getRecords()
GetRecords == state.records

\* the record lists a sheet can yield (the value of toRecords)
RecordA == [address |-> <<"A", " ", "b">>, scheduledTime |-> <<"1", ":", "3", "0">>]
RecordB == [address |-> <<"c">>, scheduledTime |-> <<"2">>]
Sheets == {<<>>, <<RecordA, RecordB>>}

\* the addresses looked up
Lookups == {<<"a", " ", " ", "B", " ">>, <<"c">>, <<"b">>, <<" ">>}

\* createToken(): a token that differs from the one it replaces (tokens are
\* numbered 1..2 and reused in turn; 0 is the empty token)
CreateToken(old) == (old % 2) + 1

\* the state object as createSheetsDb builds it (lines 240-247)
NewState ==
  [records |-> <<>>, token |-> 0, refreshedAgo |-> 0 - 1,
   expiresSet |-> FALSE, expiresIn |-> 0, loading |-> FALSE, lastError |-> ""]

NoCache == [cached |-> FALSE]

\* what setFreshData hands to localStorage (lines 280-285)
CacheOf(st) ==
  [cached |-> TRUE, records |-> st.records, token |-> st.token,
   refreshedAgo |-> st.refreshedAgo, expiresSet |-> st.expiresSet,
   expiresIn |-> st.expiresIn]

\* loadCache (lines 288-296)
LoadCache(st) ==
  IF ~storage.cached THEN st
  ELSE [st EXCEPT !.records = storage.records, !.token = storage.token,
                  !.refreshedAgo = storage.refreshedAgo,
                  !.expiresSet = storage.expiresSet,
                  !.expiresIn = storage.expiresIn]

\* Date.now() >= state.expiresAt
Expired(st) == ~st.expiresSet \/ st.expiresIn = 0

\* setFreshData (lines 273-278)
SetFreshData(st, records) ==
  [st EXCEPT !.records = records, !.token = CreateToken(st.token),
             !.refreshedAgo = 0, !.expiresSet = TRUE, !.expiresIn = SafeTtl,
             !.lastError = ""]

\* variant: a failed refresh also drops the records
Caught_DropsRecords(st, message) ==
  [st EXCEPT !.records = <<>>, !.lastError = message, !.expiresSet = TRUE, !.expiresIn = RetryMs]

\* the catch block of refresh (lines 308-310)
Caught(st, message) ==
  [st EXCEPT !.lastError = message, !.expiresSet = TRUE, !.expiresIn = RetryMs]

\* the pending timers once clearTimeout(refreshTimer) has run
Cleared == {t \in sheetTimers : t.id # refreshTimer}

\* a handle no pending timer has
NewHandle(ts) == CHOOSE n \in 1..(Cardinality(ts) + 1) : \A t \in ts : t.id # n

\* variant: the timer before is not cleared
ScheduleAutoRefresh_NoClear(st) ==
  IF ~st.expiresSet
  THEN /\ sheetTimers' = sheetTimers
       /\ UNCHANGED refreshTimer
  ELSE /\ sheetTimers' = sheetTimers \cup {[id |-> NewHandle(sheetTimers),
                                            left |-> Max(MinDelayMs, st.expiresIn)]}
       /\ refreshTimer' = NewHandle(sheetTimers)

\* scheduleAutoRefresh (lines 263-271) with state as st
ScheduleAutoRefresh(st) ==
  IF ~st.expiresSet
  THEN /\ sheetTimers' = Cleared
       /\ UNCHANGED refreshTimer
  ELSE /\ sheetTimers' = Cleared \cup {[id |-> NewHandle(Cleared),
                                        left |-> Max(MinDelayMs, st.expiresIn)]}
       /\ refreshTimer' = NewHandle(Cleared)

\* the async function of refresh up to its first await (lines 304-306): the
\* candidates are built and the first fetch is sent, or the link is refused
Started ==
  IF BuildEndpointCandidates(spreadsheetUrl).ok
  THEN [phase |-> "fetching", candidate |-> 1]
  ELSE [phase |-> "rejected", candidate |-> 0]

\* variant: a refresh is started whether or not one is in flight
Refresh_NoInFlightCheck(st, by) ==
  /\ state' = [st EXCEPT !.loading = TRUE]
  /\ refreshPromise' = TRUE
  /\ fetch' = Append(fetch, Started)
  /\ lastEvent' = by

\* refresh() called by `by` with state as st (lines 298-320, up to the
\* return)
Refresh(st, by) ==
  IF refreshPromise
  THEN /\ state' = st
       /\ UNCHANGED <<refreshPromise, fetch, lastEvent>>
  ELSE /\ state' = [st EXCEPT !.loading = TRUE]
       /\ refreshPromise' = TRUE
       /\ fetch' = Append(fetch, Started)
       /\ lastEvent' = by

\* init() (lines 328-338)
CallInit ==
  /\ ~destroyed
  /\ calls < MaxCalls
  /\ calls' = calls + 1
  /\ LET st == LoadCache(state)
     IN  IF st.records = <<>> \/ Expired(st)
         THEN /\ Refresh(st, "started by init")
              /\ UNCHANGED <<refreshTimer, sheetTimers>>
         ELSE /\ state' = st
              /\ ScheduleAutoRefresh(st)
              /\ UNCHANGED <<refreshPromise, fetch, lastEvent>>
  /\ UNCHANGED <<coreVars, pageVars, spreadsheetUrl, ttlMs, storage, destroyed>>

\* refreshNow()
CallRefreshNow ==
  /\ ~destroyed
  /\ calls < MaxCalls
  /\ calls' = calls + 1
  /\ Refresh(state, "started by refreshNow")
  /\ UNCHANGED <<coreVars, pageVars, spreadsheetUrl, ttlMs, refreshTimer, sheetTimers,
                 storage, destroyed>>

\* a timer of the cache is due: its callback calls refresh() (lines 268-270)
SheetTimerFires ==
  /\ \E t \in sheetTimers :
       /\ t.left = 0
       /\ sheetTimers' = sheetTimers \ {t}
  /\ Refresh(state, "started by timer")
  /\ UNCHANGED <<coreVars, pageVars, spreadsheetUrl, ttlMs, refreshTimer, storage,
                 destroyed, calls>>

\* the rest of the async function once the try or the catch block has left
\* the state as st (lines 311-316); slot is its place in fetch
Finally(st, slot) ==
  /\ state' = [st EXCEPT !.loading = FALSE]
  /\ ScheduleAutoRefresh(st)
  /\ refreshPromise' = FALSE
  /\ fetch' = SubSeq(fetch, 1, slot - 1) \o SubSeq(fetch, slot + 1, Len(fetch))

\* a candidate answers with rows that toRecords accepts (lines 306-307);
\* localStorage takes the entry or refuses it (lines 225-231)
FetchSucceeds ==
  /\ \E slot \in 1..Len(fetch) :
       /\ fetch[slot].phase = "fetching"
       /\ \E records \in Sheets :
            /\ Finally(SetFreshData(state, records), slot)
            /\ \/ storage' = CacheOf(SetFreshData(state, records))
               \/ UNCHANGED storage
  /\ lastEvent' = "completed"
  /\ UNCHANGED <<coreVars, pageVars, spreadsheetUrl, ttlMs, destroyed, calls>>

\* a candidate fails (lines 194-205): the next one is tried, or the refresh
\* fails with the sync error
FetchFails ==
  /\ \E slot \in 1..Len(fetch) :
       /\ fetch[slot].phase = "fetching"
       /\ IF fetch[slot].candidate < Len(BuildEndpointCandidates(spreadsheetUrl).value)
          THEN /\ fetch' = [fetch EXCEPT ![slot].candidate = @ + 1]
               /\ UNCHANGED <<state, refreshPromise, refreshTimer, sheetTimers, lastEvent>>
          ELSE /\ Finally(Caught(state, SyncError), slot)
               /\ lastEvent' = "failed"
  /\ UNCHANGED <<coreVars, pageVars, spreadsheetUrl, ttlMs, storage, destroyed, calls>>

\* the link was refused: fetchSheetRows rejects without a fetch
RefreshRejected ==
  /\ \E slot \in 1..Len(fetch) :
       /\ fetch[slot].phase = "rejected"
       /\ Finally(Caught(state, ExtractSpreadsheetId(spreadsheetUrl).value), slot)
  /\ lastEvent' = "failed"
  /\ UNCHANGED <<coreVars, pageVars, spreadsheetUrl, ttlMs, storage, destroyed, calls>>

\* destroy() (lines 340-343)
Destroy ==
  /\ ~destroyed
  /\ destroyed' = TRUE
  /\ sheetTimers' = Cleared
  /\ refreshTimer' = 0
  /\ UNCHANGED <<coreVars, pageVars, spreadsheetUrl, ttlMs, state, refreshPromise,
                 storage, fetch, calls, lastEvent>>

\* the delays that have not run out
Waits ==
  {t.left : t \in sheetTimers} \cup {state.expiresIn}
    \cup (IF storage.cached THEN {storage.expiresIn} ELSE {})

Later(left, d) == Max(0, left - d)
Older(ago, d) == IF ago < 0 THEN ago ELSE Min(AgeCap, ago + d)

\* time passes until the nearest of the delays has run out
Elapse ==
  /\ \E d \in Waits :
       /\ d > 0
       /\ \A e \in Waits : e > 0 => d <= e
       /\ sheetTimers' = {[id |-> t.id, left |-> Later(t.left, d)] : t \in sheetTimers}
       /\ state' = [state EXCEPT !.expiresIn = Later(@, d), !.refreshedAgo = Older(@, d)]
       /\ storage' = IF storage.cached
                     THEN [storage EXCEPT !.expiresIn = Later(@, d),
                                          !.refreshedAgo = Older(@, d)]
                     ELSE storage
  /\ UNCHANGED <<coreVars, pageVars, spreadsheetUrl, ttlMs, refreshPromise, refreshTimer,
                 fetch, destroyed, calls, lastEvent>>

\* what localStorage holds when the cache is created: nothing, an entry that
\* is still valid, an entry that has expired, an entry without rows
StoredBefore ==
  {NoCache,
   [cached |-> TRUE, records |-> <<RecordB>>, token |-> 3, refreshedAgo |-> 0,
    expiresSet |-> TRUE, expiresIn |-> MinTtlMs],
   [cached |-> TRUE, records |-> <<RecordB>>, token |-> 3, refreshedAgo |-> MinTtlMs,
    expiresSet |-> TRUE, expiresIn |-> 0],
   [cached |-> TRUE, records |-> <<>>, token |-> 3, refreshedAgo |-> 0,
    expiresSet |-> TRUE, expiresIn |-> MinTtlMs]}

\* createSheetsDb has returned (lines 233-250); ttlMs 0 stands for an option
\* that is absent or not a number
InitSheets ==
  /\ spreadsheetUrl \in Links
  /\ ttlMs \in {0, 1000}
  /\ state = NewState
  /\ refreshPromise = FALSE
  /\ refreshTimer = 0
  /\ sheetTimers = {}
  /\ storage \in StoredBefore
  /\ fetch = <<>>
  /\ destroyed = FALSE
  /\ calls = 0
  /\ lastEvent = "none"
  /\ CoreIdle
  /\ PageUnused

NextSheets ==
  \/ CallInit
  \/ CallRefreshNow
  \/ SheetTimerFires
  \/ FetchSucceeds
  \/ FetchFails
  \/ RefreshRejected
  \/ Destroy
  \/ Elapse

SpecSheets == InitSheets /\ [][NextSheets]_vars

\* a refresh in flight settles
Settle == FetchSucceeds \/ FetchFails \/ RefreshRejected

\* Time passes, a due timer fires, and a request that has been sent is
\* answered or fails.
SpecSheetsFair ==
  SpecSheets /\ WF_vars(Elapse) /\ WF_vars(SheetTimerFires) /\ WF_vars(Settle)

\* ============================================================ properties
Done == pc = "done"

MinSet(S) == CHOOSE x \in S : \A y \in S : x <= y

JobIds == 1..Len(jobsMinutes)

\* the job is pinned to a team of the range 1..teamCount
PinnedInRange(j) == jobsMinutes[j].fixedTeam \in 1..teamCount

InputMinutes == [j \in JobIds |-> jobsMinutes[j].minutes]

\* the free jobs of a returned team, and their quantized weights
ReturnedFree(t) == SelectSeq(teams[t].jobs, LAMBDA job : ~PinnedInRange(job.name))

WeightOfName(nm) == (CHOOSE k \in 1..Len(freeItems) : freeItems[k].name = nm)

ReturnedLoadW(t) ==
  LET fr == ReturnedFree(t)
  IN  baseW[t] + SumSeq([k \in 1..Len(fr) |-> freeItems[WeightOfName(fr[k].name)].w])

ReturnedMakespanW == MaxSeq([t \in Teams |-> ReturnedLoadW(t)])

\* quantized makespan of an arbitrary assignment f of the free items
MakespanW(f) ==
  MaxSeq([t \in Teams |->
            baseW[t] + SumSeq([k \in 1..itemCount |->
                                 IF f[k] = t THEN freeItems[k].w ELSE 0])])

OptMakespanW == MinSet({MakespanW(f) : f \in [1..itemCount -> Teams]})

GreedyMakespanW == MaxSeq(loads0)

\* makespan in minutes of a placement g of all the jobs
MakespanMinutes(g) ==
  MaxSeq([t \in Teams |->
            SumSeq([j \in JobIds |-> IF g[j] = t THEN jobsMinutes[j].minutes ELSE 0])])

PinnedPlacements ==
  {g \in [JobIds -> Teams] :
     \A j \in JobIds : PinnedInRange(j) => g[j] = jobsMinutes[j].fixedTeam}

OptMinutes == MinSet({MakespanMinutes(g) : g \in PinnedPlacements})

TotalMinutes == [t \in Teams |-> teams[t].totalMinutes]

\* number of times input job j occurs in the job list of returned team t
Occurrences(j, t) ==
  Cardinality({k \in 1..Len(teams[t].jobs) :
                 teams[t].jobs[k] = [name |-> j, minutes |-> jobsMinutes[j].minutes]})

SearchImproved == GreedyMakespanW > bestMakespanW

\* C1: the returned assignment has the minimum quantized makespan over all
\* assignments of the free items to teams (no pruning loses every optimum).
C1_OptimalQuantizedMakespan ==
  Done => /\ ReturnedMakespanW = OptMakespanW
          /\ bestMakespanW = OptMakespanW

\* the search ran through the pruning rules and beat the greedy baseline
C1_Witness ==
  /\ Done /\ SearchImproved /\ seen # {}
  /\ ReturnedMakespanW = OptMakespanW

\* C2: with quantum 1 the largest totalMinutes of the returned teams is the
\* minimum, over all placements that keep pinned jobs on their team, of the
\* busiest team's minutes.
C2_UnitQuantumOptimalMinutes ==
  (Done /\ quant = 1) => MaxSeq(TotalMinutes) = OptMinutes

C2_Witness ==
  /\ Done /\ quant = 1 /\ SearchImproved
  /\ \E j \in JobIds : PinnedInRange(j)
  /\ MaxSeq(TotalMinutes) = OptMinutes

\* C3: conservation: the totals add up to the input minutes and every input
\* job is in exactly one returned job list, exactly once.
C3_Conservation ==
  Done => /\ SumSeq(TotalMinutes) = SumSeq(InputMinutes)
          /\ \A j \in JobIds :
               /\ \E t \in Teams : Occurrences(j, t) = 1
               /\ \A t, u \in Teams :
                    (Occurrences(j, t) > 0 /\ Occurrences(j, u) > 0) => t = u
          /\ SumSeq([t \in Teams |-> Len(teams[t].jobs)]) = Len(jobsMinutes)

\* pinned and free jobs, with the assignment taken from the search
C3_Witness ==
  /\ Done /\ SearchImproved
  /\ \E j, k \in JobIds : PinnedInRange(j) /\ ~PinnedInRange(k)
  /\ SumSeq(TotalMinutes) = SumSeq(InputMinutes)

\* C4: a job pinned to team t (1 <= t <= teamCount) is returned on team t and
\* on no other team.
C4_FixedFidelity ==
  Done => \A j \in JobIds :
            PinnedInRange(j) =>
              \A t \in Teams :
                Occurrences(j, t) = (IF t = jobsMinutes[j].fixedTeam THEN 1 ELSE 0)

\* a job pinned to the last team, returned there although the search replaced
\* the greedy assignment
C4_Witness ==
  /\ Done /\ SearchImproved /\ teamCount > 1
  /\ \E j \in JobIds : /\ jobsMinutes[j].fixedTeam = teamCount
                       /\ Occurrences(j, teamCount) = 1

\* C5: the quantized makespan of the returned assignment never exceeds the
\* greedy baseline's.
C5_MonotonicImprovement ==
  Done => /\ ReturnedMakespanW <= GreedyMakespanW
          /\ bestMakespanW <= GreedyMakespanW

C5_Witness ==
  /\ Done
  /\ ReturnedMakespanW < GreedyMakespanW
  /\ itemCount >= 3

\* C6: a second invocation on the same arguments returns the same teams
\* (same totalMinutes and same job lists); nothing of the first invocation
\* (visited set, best solution, loads) leaks into it.
C6_Determinism ==
  (Done /\ run = 2) => teams = firstTeams

\* the second invocation ran a search that visited nodes and replaced the
\* greedy assignment
C6_Witness ==
  /\ Done /\ run = 2 /\ SearchImproved /\ seen # {}
  /\ teams = firstTeams

\* names of the free jobs on a returned team / of the items of a list
ReturnedFreeNames(t) == {ReturnedFree(t)[k].name : k \in 1..Len(ReturnedFree(t))}
ItemNames(items) == {items[k].name : k \in 1..Len(items)}

\* C7: when no assignment beats the greedy makespan the returned placement of
\* the free jobs is the greedy one; the best assignment is replaced only
\* together with a strictly smaller best makespan.
C7_FirstFoundKept ==
  /\ []((Done /\ OptMakespanW = GreedyMakespanW)
          => \A t \in Teams : ReturnedFreeNames(t) = ItemNames(assign0[t]))
  /\ [][(pc = "search" /\ bestAssign' # bestAssign)
          => bestMakespanW' < bestMakespanW]_vars

\* the search explored nodes, found nothing better, and greedy was returned
C7_Witness ==
  /\ Done /\ ~SearchImproved /\ Cardinality(seen) >= 2 /\ itemCount >= 2
  /\ \A t \in Teams : ReturnedFreeNames(t) = ItemNames(assign0[t])

NonIncreasing(js) == \A k \in 1..(Len(js) - 1) : js[k].minutes >= js[k + 1].minutes

\* the team got no pinned job and no free item
ReceivedNothing(t) ==
  /\ \A j \in JobIds : jobsMinutes[j].fixedTeam # t
  /\ bestAssign[t] = <<>>

\* C8: exactly teamCount teams, indexed 1..teamCount; a team that received
\* nothing has an empty list and total 0; every list is in non-increasing
\* order of minutes.
C8_OutputShape ==
  Done => /\ DOMAIN teams = 1..teamCount
          /\ \A t \in Teams :
               /\ NonIncreasing(teams[t].jobs)
               /\ ReceivedNothing(t) => (teams[t].jobs = <<>> /\ teams[t].totalMinutes = 0)

\* several teams returned in index order, one of them with jobs that stood in
\* ascending order of minutes in the input and were reordered by the sort
C8_Witness ==
  /\ Done /\ teamCount >= 2
  /\ DOMAIN teams = 1..teamCount
  /\ \E u \in Teams :
       /\ Len(teams[u].jobs) >= 2
       /\ teams[u].jobs[1].minutes > teams[u].jobs[2].minutes
       /\ teams[u].jobs[1].name > teams[u].jobs[2].name

\* position of job j in the list of team t (0 when absent)
PosIn(t, j) ==
  IF \E k \in 1..Len(teams[t].jobs) : teams[t].jobs[k].name = j
  THEN CHOOSE k \in 1..Len(teams[t].jobs) : teams[t].jobs[k].name = j
  ELSE 0

TiedOn(t, j, k) ==
  /\ PosIn(t, j) > 0 /\ PosIn(t, k) > 0
  /\ j < k
  /\ jobsMinutes[j].minutes = jobsMinutes[k].minutes

C10_TotalIsExactSum ==
  Done => \A t \in Teams : teams[t].totalMinutes = SumSeq(MinutesOf(teams[t].jobs))

\* a quantum above 1 under which the weights do not add up to the minutes
C10_Witness ==
  /\ Done /\ q > 1
  /\ \E t \in Teams :
       /\ Len(fixedAssign[t]) >= 1 /\ Len(bestAssign[t]) >= 1
       /\ teams[t].totalMinutes = SumSeq(MinutesOf(teams[t].jobs))
       /\ teams[t].totalMinutes # q * (baseW[t] + SumSeq(WeightsOf(bestAssign[t])))

\* the jobs whose fixedTeam is outside 1..teamCount, in input order
OutOfRangeJobs == SelectSeq(jobsMinutes, LAMBDA job : job.fixedTeam \notin 1..teamCount)

\* minutes pinned to team t by the jobs whose fixedTeam is exactly t
PinnedMinutes(t) ==
  SumSeq([j \in JobIds |-> IF jobsMinutes[j].fixedTeam = t THEN jobsMinutes[j].minutes ELSE 0])

Partitioned == pc # "partition"

\* C11: a job whose fixedTeam is 0, negative or above teamCount adds nothing
\* to any fixed load, is in the free list (in input order), and is returned
\* exactly once on some team.
C11_OutOfRangeIsFree ==
  /\ Partitioned =>
       /\ free = OutOfRangeJobs
       /\ \A t \in Teams : fixedLoads[t] = PinnedMinutes(t)
  /\ Done =>
       \A j \in JobIds :
         ~PinnedInRange(j) =>
           SumSeq([t \in Teams |-> Occurrences(j, t)]) = 1

\* a job with fixedTeam = teamCount + 1 is returned on team 1 of two teams,
\* beside a job with fixedTeam 0 on team 2
C11_Witness ==
  /\ Done /\ teamCount = 2
  /\ \E j \in JobIds : /\ jobsMinutes[j].fixedTeam = teamCount + 1
                       /\ Occurrences(j, 1) = 1
  /\ \E j \in JobIds : /\ jobsMinutes[j].fixedTeam = 0
                       /\ Occurrences(j, 2) = 1
  /\ Len(free) = Len(jobsMinutes)

Quantized == pc \notin {"partition", "quantize"}

\* minutes / qq rounded to the nearest integer, halves up: the r with
\* r - 1/2 <= minutes / qq < r + 1/2
NearestHalfUp(minutes, qq) ==
  CHOOSE r \in 0..(minutes + 1) :
    /\ (2 * r - 1) * qq <= 2 * minutes
    /\ 2 * minutes < (2 * r + 1) * qq

\* C12: every free item's weight is max(1, minutes / quantum rounded to the
\* nearest integer with halves up), so it is at least 1, and with quantum 1
\* it is the job's duration in minutes.
C12_ItemWeight ==
  Quantized =>
    /\ Len(freeItems) = Len(free)
    /\ \A k \in 1..Len(freeItems) :
         LET item == freeItems[k]
             r == NearestHalfUp(item.minutes, quant)
         IN  /\ item.minutes = jobsMinutes[item.name].minutes
             /\ item.w = IF r >= 1 THEN r ELSE 1
             /\ item.w >= 1
             /\ quant = 1 => item.w = item.minutes

\* quantum 4: 1 minute rounds to 0 and is raised to 1, 2 minutes is a half
\* and rounds up to 1
C12_Witness ==
  /\ Quantized /\ quant = 4
  /\ \E k \in 1..Len(freeItems) : freeItems[k].minutes = 1 /\ freeItems[k].w = 1
  /\ \E k \in 1..Len(freeItems) : freeItems[k].minutes = 2 /\ freeItems[k].w = 1
  /\ \E k \in 1..Len(freeItems) : freeItems[k].minutes = 3 /\ freeItems[k].w = 1

\* the jobs pinned to team t
PinnedJobs(t) == {j \in JobIds : jobsMinutes[j].fixedTeam = t}

\* C13: a team's fixed weight is the rounding of the sum of its pinned
\* minutes (not the sum of roundings), raised to 1 when the sum is nonzero
\* and rounds to 0; it is at least 1 exactly when the team has pinned
\* minutes and 0 exactly when it has none.
C13_FixedWeight ==
  Quantized =>
    \A t \in Teams :
      LET r == NearestHalfUp(PinnedMinutes(t), quant)
      IN  /\ baseW[t] = IF PinnedMinutes(t) > 0 /\ r = 0 THEN 1 ELSE r
          /\ baseW[t] >= 1 <=> PinnedMinutes(t) > 0
          /\ baseW[t] = 0 <=> PinnedJobs(t) = {}

\* quantum 5: team 1 has two pinned jobs of 1 minute (the sum 2 rounds to 0
\* and is forced to 1), team 2 has none and weighs 0
C13_Witness ==
  /\ Quantized /\ quant = 5 /\ teamCount >= 2
  /\ Cardinality(PinnedJobs(1)) = 2 /\ PinnedMinutes(1) = 2 /\ baseW[1] = 1
  /\ PinnedJobs(2) = {} /\ baseW[2] = 0

\* C14: with one team, every input job (pinned or free) is in team 1's list
\* exactly once, the list holds nothing else, and team 1's totalMinutes is
\* the sum of all durations.
C14_SingleTeam ==
  Done /\ teamCount = 1 =>
    /\ Len(teams) = 1
    /\ Len(teams[1].jobs) = Len(jobsMinutes)
    /\ \A j \in JobIds : Occurrences(j, 1) = 1
    /\ teams[1].totalMinutes = SumSeq(InputMinutes)

\* one team, a pinned job and three free jobs of different durations
C14_Witness ==
  /\ Done /\ teamCount = 1
  /\ Len(jobsMinutes) = 4
  /\ \E j \in JobIds : PinnedInRange(j)
  /\ Cardinality({jobsMinutes[j].minutes : j \in {i \in JobIds : ~PinnedInRange(i)}}) = 3
  /\ Len(teams[1].jobs) = 4

\* the activations that have placed an item on team t and not yet undone
\* it: exactly the callers of the calls in progress (or just returned)
Placing(t) == SelectSeq(stack, LAMBDA f : f.at = "back" /\ f.i = t)

\* the items those activations placed, oldest first
PlacedItems(t) == [k \in 1..Len(Placing(t)) |-> freeItems[Placing(t)[k].idx + 1]]

\* C17: during the search the working loads and partial lists hold exactly
\* the placements of the callers of the call in progress: a call that has
\* returned (by any exit path) has left loads and lists as they were at its
\* entry, and once dfs(0) has returned loads is baseW and every list is empty.
C17_BacktrackingDiscipline ==
  pc = "search" =>
    /\ \A t \in Teams :
         /\ assign[t] = PlacedItems(t)
         /\ loads[t] = baseW[t] + SumSeq(WeightsOf(PlacedItems(t)))
    /\ stack = <<>> => loads = baseW /\ assign = EmptyLists

\* dfs(0) has returned from a search that expanded nodes and reached an
\* improving terminal node
C17_Witness ==
  /\ pc = "search" /\ stack = <<>>
  /\ bestMakespanW < GreedyMakespanW
  /\ Cardinality(seen) >= 3
  /\ loads = baseW /\ baseMax >= 1

\* number of times sorted free item k is in a partial list
TimesPlaced(k) ==
  SumSeq([t \in Teams |->
            Cardinality({p \in 1..Len(assign[t]) : assign[t][p] = freeItems[k]})])

\* C18: at the entry of dfs(idx) the loads add up to the fixed weights plus
\* the weights of sorted free items 1..idx, each of those items is in
\* exactly one partial list and the later items are in none (so at a
\* terminal node every free item is in exactly one list).
C18_NodeEntryAccounting ==
  AtCall =>
    /\ SumSeq(loads) =
         SumSeq(baseW) + SumSeq([k \in 1..Top.idx |-> freeItems[k].w])
    /\ \A k \in 1..itemCount :
         TimesPlaced(k) = IF k <= Top.idx THEN 1 ELSE 0
    /\ SumSeq([t \in Teams |-> Len(assign[t])]) = Top.idx

\* a terminal node with three free items spread over two teams
C18_Witness ==
  /\ AtCall /\ Top.idx = itemCount /\ itemCount >= 3
  /\ \E t, u \in Teams : t # u /\ assign[t] # <<>> /\ assign[u] # <<>>
  /\ SumSeq(baseW) >= 1

\* quantized load of team t under the recorded best assignment
BestLoadW(t) == baseW[t] + SumSeq(WeightsOf(bestAssign[t]))

\* number of times sorted free item k is in the recorded best assignment
TimesInBest(k) ==
  SumSeq([t \in Teams |->
            Cardinality({p \in 1..Len(bestAssign[t]) : bestAssign[t][p] = freeItems[k]})])

\* C19: from the greedy baseline on, bestAssign holds every free item exactly
\* once and its makespan is bestMakespanW; during the search both change
\* only at a terminal node, together, and to a strictly smaller makespan, so
\* pushes and pops on the working lists never change the recorded best.
C19_BestConsistent ==
  /\ [](pc \in {"setup", "search", "done"} =>
          /\ \A k \in 1..itemCount : TimesInBest(k) = 1
          /\ SumSeq([t \in Teams |-> Len(bestAssign[t])]) = itemCount
          /\ MaxSeq([t \in Teams |-> BestLoadW(t)]) = bestMakespanW)
  /\ [][pc = "search" /\ (bestMakespanW' # bestMakespanW \/ bestAssign' # bestAssign)
          => /\ AtCall /\ Top.idx = itemCount
             /\ bestMakespanW' < bestMakespanW
             /\ bestAssign' = assign
             /\ assign' = assign]_vars

\* the best was replaced at a terminal node and the working lists have
\* since been popped and refilled differently
C19_Witness ==
  /\ pc = "search" /\ stack # <<>>
  /\ bestMakespanW < GreedyMakespanW
  /\ bestAssign # assign0
  /\ \E t \in Teams : assign[t] # <<>> /\ assign[t] # bestAssign[t]

\* the activation that called the call in progress
Caller == stack[Len(stack) - 1]

\* a node that the lower bound closes
Hopeless == AtCall /\ Top.idx # itemCount /\ LowerBound >= bestMakespanW

\* C20 as stated: at the entry of every dfs(idx) with idx >= 1 every team
\* load is below bestMakespanW, a node whose lower bound reaches
\* bestMakespanW is left without branching or recording a key, and every
\* terminal node reached with at least one free item records a strictly
\* better solution.
C20_NeverEntersHopelessNode ==
  /\ [](AtCall /\ Top.idx >= 1 => \A t \in Teams : loads[t] < bestMakespanW)
  /\ [](AtCall /\ Top.idx = itemCount /\ itemCount >= 1
          => MaxSeq(loads) < bestMakespanW)
  /\ [][Hopeless => stack' = Pop /\ seen' = seen]_vars

\* C20, amended: at the entry of every dfs(idx) with idx >= 1 the load of the
\* team that has just received the item is below bestMakespanW (another
\* team's load can have reached it after an improvement in an earlier
\* branch); a node whose lower bound reaches bestMakespanW is left without
\* branching, writing or recording a key; a terminal node records a solution
\* exactly when its makespan is below bestMakespanW.
C20_BranchFeasibility ==
  /\ [](AtCall /\ Top.idx >= 1 => loads[Caller.i] < bestMakespanW)
  /\ [][Hopeless => /\ stack' = Pop /\ seen' = seen
                    /\ loads' = loads /\ assign' = assign
                    /\ bestMakespanW' = bestMakespanW /\ bestAssign' = bestAssign]_vars
  /\ [][AtCall /\ Top.idx = itemCount
          => IF MaxSeq(loads) < bestMakespanW
             THEN bestMakespanW' = MaxSeq(loads) /\ bestAssign' = assign
             ELSE bestMakespanW' = bestMakespanW /\ bestAssign' = bestAssign]_vars

\* a call entered after a successful feasibility test while another team's
\* load has reached the best makespan, which an earlier branch lowered
C20_Witness ==
  /\ AtCall /\ Top.idx >= 1
  /\ loads[Caller.i] < bestMakespanW
  /\ \E t \in Teams : loads[t] >= bestMakespanW
  /\ bestMakespanW < GreedyMakespanW

\* the input is malformed: team count or rounding missing or below 1, no
\* job, or a job with a blank name or a duration that does not parse
Malformed ==
  \/ ~IsFinite(ParseInt(elK)) \/ ParseInt(elK).val < 1
  \/ ~IsFinite(ParseInt(elQuant)) \/ ParseInt(elQuant).val < 1
  \/ jobs = <<>>
  \/ \E i \in 1..Len(jobs) :
       \/ Trim(jobs[i].name) = <<>>
       \/ ~ParseTimeToMinutes(jobs[i].durRaw).ok

ReviewStatus == Status(Message("Please review your inputs.", <<>>, ""), "bad")

\* C15: the core runs only inside a timer callback, and a Solve click on
\* malformed input schedules no callback (so the core is never called for
\* that click), leaves the plan output and the plan snapshot empty, shows
\* the error and sets the status to "Please review your inputs.".
C15_MalformedRejected ==
  /\ [](pc # "idle" => uiPc = "callback")
  /\ [](uiPc = "solve" => elOut = NoPlan /\ latestPlanSnapshot = NoPlan)
  /\ [][uiPc = "solve" /\ Malformed
          => /\ timers' = timers
             /\ pc' = "idle"
             /\ elOut' = NoPlan /\ latestPlanSnapshot' = NoPlan
             /\ elStatus' = ReviewStatus
             /\ elErr'.shown
             /\ uiPc' = "idle"]_vars
  /\ [][Len(timers') > Len(timers) => uiPc = "solve" /\ ~Malformed]_vars

\* a click on a table whose last row has a blank name has been refused
C15_Witness ==
  /\ uiPc = "idle" /\ Malformed
  /\ Len(jobs) >= 2 /\ Trim(jobs[Len(jobs)].name) = <<>>
  /\ elStatus = ReviewStatus
  /\ elErr = ErrorShown(Message("Job ", ToText(Len(jobs)), ": address is missing"))
  /\ timers = <<>> /\ elOut = NoPlan
  /\ solveHistory # <<>>

\* a job list handed to the core is valid
ValidJobList(args) ==
  \A i \in 1..Len(args.jobsMinutes) :
    LET job == args.jobsMinutes[i]
    IN  /\ job.name # <<>>
        /\ job.minutes \in Nat /\ job.minutes > 0
        /\ job.fixedTeam \in 0..args.teamCount

\* C16: every job list that solve() hands to the core (captured by a pending
\* callback, or passed to the call in progress) has non-empty names,
\* durations that are integers above 0, and fixedTeam in 0..teamCount.
C16_HandedJobsValid ==
  /\ \A k \in 1..Len(timers) : ValidJobList(timers[k])
  /\ uiPc = "callback" =>
       ValidJobList([jobsMinutes |-> jobsMinutes, teamCount |-> teamCount])

\* the loads as they were when activation k of the stack was entered: the
\* placements of activations k and deeper are taken back, innermost first
RECURSIVE LoadsAt(_)
LoadsAt(k) ==
  IF k > Len(stack) THEN loads
  ELSE LET inner == LoadsAt(k + 1)
       IN  IF stack[k].at = "back"
           THEN [inner EXCEPT ![stack[k].i] = stack[k].previousLoad]
           ELSE inner

\* depth and multiset of loads (as the ascending sequence) of the node
\* whose call is in progress
NodeState == <<Top.idx, SortAsc(loads)>>

\* the call in progress starts branching: it stays on the stack and enters
\* its loop
StartsBranching ==
  /\ AtCall
  /\ Len(stack') = Len(stack)
  /\ stack'[Len(stack)].at = "loop"

\* C21: a node branches only when its key (depth, multiset of loads) is not
\* yet recorded, and records it in the same step, before any child is
\* explored; keys are never removed during a search; an arrival at a
\* non-terminal node whose key is recorded, with the loads in any team
\* order, returns at once and changes nothing.  So the branching step runs
\* at most once per key.
C21_Memoization ==
  /\ [](pc = "search" =>
          \A k \in 1..Len(stack) :
            stack[k].at \in {"loop", "back"}
              => <<stack[k].idx, SortAsc(LoadsAt(k))>> \in seen)
  /\ [][pc = "search" /\ pc' = "search" => seen \subseteq seen']_vars
  /\ [][StartsBranching => NodeState \notin seen /\ seen' = seen \cup {NodeState}]_vars
  /\ [][AtCall /\ Top.idx # itemCount /\ NodeState \in seen
          => /\ stack' = Pop
             /\ seen' = seen /\ loads' = loads /\ assign' = assign
             /\ bestMakespanW' = bestMakespanW /\ bestAssign' = bestAssign]_vars

\* a call arrives, below the lower bound, at a depth and a multiset of loads
\* that are recorded, with its loads in another order than the recorded one
C21_Witness ==
  /\ AtCall /\ Top.idx # itemCount
  /\ ~(LowerBound >= bestMakespanW)
  /\ NodeState \in seen
  /\ loads # SortAsc(loads)

\* ord lists every team once, by ascending load, lower index first among
\* equal loads
AscendingByLoad(ord, ld) ==
  /\ Len(ord) = teamCount
  /\ {ord[p] : p \in 1..Len(ord)} = Teams
  /\ \A p, r \in 1..Len(ord) :
       p < r => \/ ld[ord[p]] < ld[ord[r]]
                \/ ld[ord[p]] = ld[ord[r]] /\ ord[p] < ord[r]

\* candidates of activation k that the loop has taken up so far
TakenUp(k) ==
  {stack[k].order[p] : p \in 1..(IF stack[k].at = "back" THEN stack[k].pos
                                  ELSE Min(stack[k].pos - 1, teamCount))}

\* C22: every node takes its candidate teams in ascending order of the loads
\* the node was entered with, lower index first among equal loads; the loads
\* it has tried are those of the candidates taken up so far; and a branch is
\* explored only from a team whose load no earlier candidate of the node has,
\* that is from the lowest-indexed team of each distinct load.
C22_SymmetryPruning ==
  /\ [](pc = "search" =>
          \A k \in 1..Len(stack) :
            stack[k].at \in {"loop", "back"} =>
              /\ AscendingByLoad(stack[k].order, LoadsAt(k))
              /\ stack[k].triedLoads = {LoadsAt(k)[t] : t \in TakenUp(k)})
  /\ [][pc = "search" /\ Len(stack') > Len(stack) =>
          /\ AtLoop
          /\ LET i == Top.order[Top.pos]
             IN  /\ \A p \in 1..(Top.pos - 1) : loads[Top.order[p]] # loads[i]
                 /\ \A t \in Teams : loads[t] = loads[i] => i <= t
                 /\ stack'[Len(stack)].i = i
                 /\ \A t \in Teams : t # i => loads'[t] = loads[t]]_vars
  /\ [][AtLoop /\ stack' # Pop /\ Len(stack') = Len(stack)
          => stack'[Len(stack)].pos = Top.pos + 1]_vars

\* a node whose first candidate is not team 1 has explored a branch from a
\* team and now skips a team of the same load
C22_Witness ==
  /\ AtLoop /\ Top.pos >= 2 /\ Top.pos <= teamCount
  /\ Top.order[1] # 1
  /\ loads[Top.order[Top.pos]] = loads[Top.order[Top.pos - 1]]
  /\ <<Top.idx + 1, SortAsc([loads EXCEPT ![Top.order[Top.pos - 1]] = @ + freeItems[Top.idx + 1].w])>> \in seen

\* the free jobs with their weights, in input order
WeighedFree == [k \in 1..Len(free) |-> ToItem(free[k])]

\* the reference order of the free jobs numbered in rest: the heaviest
\* first, the one that stood earliest in the input among equal weights
RECURSIVE SelectLPT(_)
SelectLPT(rest) ==
  IF rest = {} THEN <<>>
  ELSE LET k == CHOOSE k \in rest :
                  \A j \in rest : \/ WeighedFree[k].w > WeighedFree[j].w
                                  \/ WeighedFree[k].w = WeighedFree[j].w /\ k <= j
       IN  <<WeighedFree[k]>> \o SelectLPT(rest \ {k})

ReferenceOrder == SelectLPT(1..Len(free))

\* the team the reference gives the next item to: the smallest load, the
\* lowest index among equal loads
ReferenceTeam(ld) ==
  CHOOSE t \in Teams : \A u \in Teams : ld[t] < ld[u] \/ (ld[t] = ld[u] /\ t <= u)

\* loads after the first r items of the reference order have been given out
RECURSIVE ReferenceLoads(_)
ReferenceLoads(r) ==
  IF r = 0 THEN baseW
  ELSE LET before == ReferenceLoads(r - 1)
       IN  [before EXCEPT ![ReferenceTeam(before)] = @ + ReferenceOrder[r].w]

\* the items the reference gives to team t, in the order it gives them
ReferenceList(t) ==
  LET mine == {r \in 1..Len(free) : ReferenceTeam(ReferenceLoads(r - 1)) = t}
      positions == SortAsc([r \in 1..Len(free) |-> IF r \in mine THEN r ELSE Len(free) + 1])
  IN  [p \in 1..Cardinality(mine) |-> ReferenceOrder[positions[p]]]

\* C23: the greedy baseline is the reference LPT construction: freeItems is
\* the free jobs by weight descending with equal weights in input order;
\* starting from the fixed weights each item in that order goes to the team
\* of smallest load, lowest index among equal loads; loads0 and assign0 are
\* the result and its largest load is the initial bestMakespanW.
C23_GreedyIsLPT ==
  /\ pc \in {"greedy", "setup"} => freeItems = ReferenceOrder
  /\ pc = "setup" =>
       /\ loads0 = ReferenceLoads(Len(free))
       /\ \A t \in Teams : assign0[t] = ReferenceList(t)
       /\ bestAssign = assign0
       /\ bestMakespanW = MaxSeq(ReferenceLoads(Len(free)))

\* quantum 2 with a pinned job: two jobs of the same weight whose minutes
\* differ stay in input order, the first item goes to the lowest-indexed of
\* the empty teams, and both of the first two teams get items
C23_Witness ==
  /\ pc = "setup" /\ quant = 2 /\ teamCount >= 2 /\ MaxSeq(baseW) >= 1
  /\ \E k \in 1..(itemCount - 1) :
       /\ freeItems[k].w = freeItems[k + 1].w
       /\ freeItems[k].minutes < freeItems[k + 1].minutes
  /\ \E t, u \in Teams : t < u /\ baseW[t] = baseW[u] /\ assign0[t] # <<>>
                          /\ assign0[t][1] = freeItems[1]
  /\ assign0[1] # <<>> /\ assign0[2] # <<>>
  /\ loads0 = ReferenceLoads(Len(free))

\* items in the partial lists
PlacedCount == SumSeq([t \in Teams |-> Len(assign[t])])

\* C24: on every valid input the call dfs(0) returns and the teams are
\* produced; activation k of the stack is dfs(k - 1) with k - 1 at most the
\* number of free items, so the recursion is never deeper than that; and
\* every recursive call is made for the next item after exactly one item has
\* been placed.
C24_Terminates ==
  /\ <>(Done /\ stack = <<>> /\ Len(teams) = teamCount)
  /\ [](pc = "search" =>
          /\ Len(stack) <= itemCount + 1
          /\ \A k \in 1..Len(stack) : stack[k].idx = k - 1
          /\ PlacedCount = Len(SelectSeq(stack, LAMBDA f : f.at = "back")))
  /\ [][pc = "search" /\ Len(stack') > Len(stack) =>
          /\ Len(stack') = Len(stack) + 1
          /\ stack'[Len(stack')].idx = Top.idx + 1
          /\ PlacedCount' = PlacedCount + 1]_vars

\* the call has returned after a search on three teams that went down to
\* the terminal depth of five free items and improved on the baseline
C24_Witness ==
  /\ Done /\ teamCount = 3 /\ itemCount = 5
  /\ bestMakespanW < GreedyMakespanW
  /\ \E key \in seen : key[1] = itemCount - 1
  /\ Len(teams) = teamCount

\* requests to the sheet that have been sent and not answered
InFlightFetches == Cardinality({i \in 1..Len(fetch) : fetch[i].phase = "fetching"})

\* this step is the callback of a due timer
TimerStep ==
  /\ destroyed' = destroyed /\ refreshTimer' = refreshTimer
  /\ \E t \in sheetTimers : t.left = 0 /\ sheetTimers' = sheetTimers \ {t}

\* this step is a call of init() or refreshNow()
CallStep == calls' # calls

\* C25: at most one execution of refresh's async function exists and at
\* most one fetch is in flight; refreshPromise is set exactly while that
\* execution exists; and a call of refresh made while it is set (by init,
\* refreshNow or a timer callback) starts nothing and changes nothing of the
\* execution in flight.
C25_SingleFlight ==
  /\ [](Len(fetch) <= 1 /\ InFlightFetches <= 1)
  /\ [](refreshPromise <=> fetch # <<>>)
  /\ [][refreshPromise /\ (CallStep \/ TimerStep)
          => /\ fetch' = fetch
             /\ refreshPromise'
             /\ lastEvent' = lastEvent
             /\ state'.loading = state.loading]_vars

\* init() and refreshNow() have both been called before the first refresh
\* settled, and one fetch is in flight
C25_Witness ==
  /\ calls = 2 /\ refreshPromise
  /\ storage = NoCache /\ state.refreshedAgo < 0 /\ state.lastError = ""
  /\ Len(fetch) = 1 /\ InFlightFetches = 1
  /\ state.loading

\* C26: once destroy() has been called no timer of the cache is pending and
\* no refresh is started, also when a refresh was in flight at the call.
C26_DestroyStopsRefreshing ==
  /\ [](destroyed => sheetTimers = {})
  /\ [][destroyed => Len(fetch') <= Len(fetch)]_vars

\* this step ends a refresh
Completes == Len(fetch') < Len(fetch)

\* C28: the step that ends a failed refresh leaves records, token and
\* refreshedAt as they were (so every lookup and getRecords answer as
\* before), leaves a non-empty lastError and loading = false; the step that
\* ends a successful refresh installs the fetched records with a new token
\* and an empty lastError; lastError is emptied by no other step, and the
\* records change in no other step except init() loading the stored entry.
C28_FailedRefreshKeepsData ==
  /\ [][Completes /\ lastEvent' = "failed"
          => /\ state'.records = state.records
             /\ state'.token = state.token
             /\ state'.refreshedAgo = state.refreshedAgo
             /\ GetRecords' = GetRecords
             /\ \A a \in Lookups : FindByAddress(a)' = FindByAddress(a)
             /\ state'.lastError # ""
             /\ state'.loading = FALSE]_vars
  /\ [][Completes /\ lastEvent' = "completed"
          => /\ state'.records \in Sheets
             /\ state'.token # state.token
             /\ state'.refreshedAgo = 0
             /\ state'.lastError = ""
             /\ state'.loading = FALSE]_vars
  /\ [][state'.lastError # state.lastError /\ state'.lastError = ""
          => Completes /\ lastEvent' = "completed"]_vars
  /\ [][state'.records # state.records
          => \/ Completes /\ lastEvent' = "completed"
             \/ CallStep /\ storage.cached /\ state'.records = storage.records]_vars

\* a refresh has failed after an earlier one had loaded two addresses, which
\* are still found
C28_Witness ==
  /\ lastEvent = "failed" /\ fetch = <<>>
  /\ state.lastError = SyncError /\ ~state.loading
  /\ GetRecords = <<RecordA, RecordB>> /\ state.token # 0
  /\ FindByAddress(<<"a", " ", " ", "B", " ">>) = RecordA
  /\ FindByAddress(<<"c">>) = RecordB
  /\ FindByAddress(<<"b">>) = NoRecord

\* C29: at most one timer of the cache is pending; the step that ends a
\* refresh leaves exactly one, due after safeTtl when the refresh succeeded
\* and after 60 seconds when it failed; and unless destroy() is called every
\* refresh that has ended is followed by a refresh that a timer callback
\* starts (the owner makes finitely many calls).
C29_AutoRefreshContinues ==
  /\ [](Cardinality(sheetTimers) <= 1)
  /\ [][Completes
          => sheetTimers' = {[id |-> refreshTimer',
                              left |-> IF lastEvent' = "completed" THEN SafeTtl ELSE RetryMs]}]_vars
  /\ (lastEvent \in {"completed", "failed"} /\ ~destroyed)
       ~> (lastEvent = "started by timer" \/ destroyed)

\* a timer callback has started a refresh after one that failed, and the
\* cache has not been destroyed
C29_Witness ==
  /\ lastEvent = "started by timer" /\ ~destroyed
  /\ refreshPromise /\ state.loading
  /\ state.lastError # ""
  /\ sheetTimers = {}

\* C27: every checkpoint labelled "Planned" holds a plan whose jobCount is
\* the number of jobs saved with it, whatever the user does between the
\* Solve click and the timer callback.
C27_PlannedCheckpointConsistent ==
  \A i \in 1..Len(solveHistory) :
    solveHistory[i].label = "Planned"
      => /\ solveHistory[i].planSnapshot # NoPlan
         /\ solveHistory[i].planSnapshot.jobCount = Len(solveHistory[i].jobs)

\* the ids of the saved checks
HistoryIds(history) == {history[i].id : i \in 1..Len(history)}

\* this step has saved a check (the dialog's steps remove checks)
SaveStep == ~confirm.open /\ solveHistory' # solveHistory

====
